---------------------------- MODULE Spec2Model ----------------------------
(***************************************************************************)
(* State-machine model of the MneeMart escrow contract                     *)
(* (src/unnamed/part_001, lines 435-709) together with the ERC20 ledger    *)
(* it calls (MockMNEE, src/unnamed/part_000, lines 9-17).                  *)
(*                                                                         *)
(* A transaction is one top-level call.  purchaseProduct,                  *)
(* withdrawSellerBalance and withdrawPlatformFees hand control to the      *)
(* token contract in their transfer step; between the request and the      *)
(* return of that transfer the model is at pc # "idle", and there the      *)
(* token may call back into the contract (the Reenter actions), complete   *)
(* the transfer, or revert.  A revert of the transfer reverts the whole    *)
(* transaction: every variable goes back to the snapshot taken when the    *)
(* transaction began.  Solidity 0.8 arithmetic is checked, and all amounts *)
(* of the model stay far below 2^256, so no operation wraps.               *)
(***************************************************************************)
EXTENDS Integers, Sequences, FiniteSets, TLC

\* ------------------------------------------------------------------ bounds
MaxProducts == 2
MaxCalls == 4
\* The tokens each account holds at the start (10000e18 in the tests).
InitialBalance == 50

\* --------------------------------------------------------------- constants
MaxFeeBps == 2000
BpsDenominator == 10000

Deployer == "owner"
Accounts == {"owner", "alice", "bob"}
Mart == "mart"
ZeroAddress == "0x0"
Holders == Accounts \cup {Mart}

ProductIds == 1..MaxProducts
IdInputs == 0..MaxProducts
\* listProduct is offered one price, updateProductPrice another.
ListPrices == {50}
UpdatePrices == {7}
ListPriceInputs == {0} \cup ListPrices
UpdatePriceInputs == {0} \cup UpdatePrices
TestFeeBps == 500
FeeRates == {0, TestFeeBps, MaxFeeBps}
\* What the constructor is offered: a token address or none, and a fee rate
\* up to one above the ceiling.
TokenAddress == "mnee"
TokenInputs == {ZeroAddress, TokenAddress}
FeeInputs == FeeRates \cup {MaxFeeBps + 1}
CidInputs == {"", "QmA"}
NameInputs == {"", "Art"}
Listers == {"alice", "bob"}
\* transferOwnership is offered one new owner, and the zero address.
OwnerInputs == {"alice", ZeroAddress}
\* The fee rates the tests pass to updatePlatformFee (part_000, lines 465 and
\* 471).
FeeUpdateInputs == {1000, MaxFeeBps + 1}

VARIABLES
    owner,                  \* Ownable._owner
    Martowner,              \* address public Martowner
    platformFeePercentage,  \* uint256, basis points
    productCounter,         \* uint256
    platformBalance,        \* uint256
    products,               \* mapping(uint256 => Product)
    sellers,                \* mapping(address => Seller)
    hasPurchased,           \* mapping(address => mapping(uint256 => bool))
    locked,                 \* ReentrancyGuard._status = ENTERED
    balanceOf,              \* ERC20 balances, the contract's custody included
    allowance,              \* ERC20 allowance of each account to the contract
    pc,                     \* "idle", or the call whose transfer is in flight
    frame,                  \* locals of the call whose transfer is in flight
    saved,                  \* snapshot restored when the transaction reverts
    lastResult,             \* outcome of the call that returned last
    lastEvent,              \* the event log: the event emitted last, and counts
    paidIn,                 \* history: tokens paid in completed purchases
    sellerPaid,             \* history: tokens paid out by withdrawSellerBalance
    platformPaid,           \* history: tokens paid out by withdrawPlatformFees
    calls,                  \* number of calls that succeeded so far
    client,                 \* the web client: hook and page state, cached reads
    txs                     \* the transactions the client's wallet has sent

storage == <<owner, Martowner, platformFeePercentage, productCounter, platformBalance,
             products, sellers, hasPurchased, locked>>
token == <<balanceOf, allowance>>
history == <<paidIn, sellerPaid, platformPaid>>
ledger == <<storage, token, pc, frame, saved, lastResult, lastEvent, history,
            calls>>
web == <<client, txs>>
vars == <<ledger, web>>

\* ----------------------------------------------------------------- records
ZeroProduct == [id |-> 0, seller |-> ZeroAddress, cid |-> "", price |-> 0,
                name |-> "", active |-> FALSE, salesCount |-> 0]

ZeroSeller == [productIds |-> <<>>, totalSales |-> 0, balance |-> 0,
               totalEarnings |-> 0]

NoFrame == [op |-> "none", caller |-> ZeroAddress, productId |-> 0,
            amount |-> 0, platformFee |-> 0]

\* The log before the first event.  index is the number of events in the log,
\* purchased[id] the number of ProductPurchased events for id among them.
NoEvent == [name |-> "none", productId |-> 0, account |-> ZeroAddress,
            seller |-> ZeroAddress, amount |-> 0, platformFee |-> 0,
            cid |-> "", index |-> 0,
            purchased |-> [id \in 1..MaxProducts |-> 0]]

NoResult == [op |-> "none", err |-> "ok", nested |-> FALSE]

NoSnapshot == <<>>

\* products[_productId] of a mapping: the zero record for an id never written
Product(id) == IF id \in ProductIds THEN products[id] ELSE ZeroProduct

Snapshot ==
    [platformBalance |-> platformBalance, productCounter |-> productCounter,
     products |-> products, sellers |-> sellers, hasPurchased |-> hasPurchased,
     balanceOf |-> balanceOf, allowance |-> allowance, lastEvent |-> lastEvent,
     paidIn |-> paidIn, sellerPaid |-> sellerPaid, platformPaid |-> platformPaid]

\* What a call returned: "ok", or the error it reverted with; nested tells a
\* call made from inside a transfer from a call of a transaction's own.
Result(op, err, nested) == [op |-> op, err |-> err, nested |-> nested]

\* emit: the log with one more event at its end
Event(name, id, account, seller, amount, fee) ==
    [name |-> name, productId |-> id, account |-> account, seller |-> seller,
     amount |-> amount, platformFee |-> fee, cid |-> "",
     index |-> lastEvent.index + 1,
     purchased |-> IF name = "ProductPurchased"
                   THEN [lastEvent.purchased EXCEPT ![id] = @ + 1]
                   ELSE lastEvent.purchased]

\* What an error, a message or the connected address holds before it is set
\* (null or undefined).
Null == "null"

\* A token amount a read has not returned yet (data === undefined).
Undefined == -1

\* What useProduct (use-products.ts lines 26-56) gives for an id that was
\* never listed, and before the read returns: no product.
NoProduct == [id |-> 0, seller |-> ZeroAddress, price |-> 0]

\* retry (utils/index.ts lines 176-197) before it is called: no run.  pc is
\* where the run stands ("call": fn is awaited, "sleep": the delay is
\* awaited, "returned", "thrown"), calls the number of calls of fn, delays
\* the delays waited, result what was returned, error what was thrown.
\* let lastError: Error | undefined (line 181), before any assignment
UndefinedError == [attempt |-> 0, instanceofError |-> FALSE]

NoRetry ==
    [pc |-> "none", maxAttempts |-> 0, baseDelayMs |-> 0, attempt |-> 0,
     calls |-> 0, delays |-> <<>>, lastError |-> UndefinedError,
     result |-> Undefined, error |-> UndefinedError]

\* The client when a page mounts: no wallet connected, no read returned, the
\* purchase flow, the decrypt flow and the upload flow idle (use-purchase.ts
\* lines 22-23, part_005 lines 72-73, create/page.tsx lines 51-60).
Mounted ==
    [address |-> Null,
     state |-> "idle", error |-> Null,
     allowance |-> Undefined, balance |-> Undefined,
     hasPurchased |-> "undefined", product |-> NoProduct,
     metadata |-> "undefined",
     decryptState |-> "idle", decryptError |-> Null, downloads |-> 0,
     productCounter |-> Undefined, uploadState |-> "idle",
     nextProductId |-> 0, listedId |-> 0, retry |-> NoRetry]

\* The transactions written through the hooks of the client: what became of
\* the last approve, purchaseProduct and listProduct it wrote ("none",
\* "prompt" while the wallet asks, "pending" once the hash is known, then
\* "executing", "success" or "reverted"), the amount of the approve, and
\* three history flags: an approve (a purchase) was refused or failed and
\* none was confirmed since; the purchase flow has reached success.  Then
\* the requests signed for the Lit network outside the page: the last one
\* and its answer, and as history the accounts that were refused and those
\* that were handed the plaintext.
NoTxs ==
    [approve |-> "none", amount |-> 0, purchase |-> "none", list |-> "none",
     approvalFailed |-> FALSE, purchaseFailed |-> FALSE,
     reachedSuccess |-> FALSE,
     lit |-> [user |-> Null, answer |-> "none"],
     refused |-> {}, released |-> {}]

\* The allowances granted to the contract before the calls of the model:
\* bob's and owner's cover one product at the listing price, alice has none.
InitialAllowance ==
    [a \in Accounts |-> IF a \in {"bob", "owner"} THEN 50 ELSE 0]

\* A call that succeeds uses one unit of the model's budget of calls: MaxCalls
\* under the fee rate of the tests, two (a listing and a purchase) under the
\* other fee rates.
Counted == calls < MaxCalls /\ calls' = calls + 1

\* ------------------------------------------------------------ constructor
\* The constructor without the ceiling on the fee rate.
constructorNoCeiling(tokenAddress, fee) ==
    IF tokenAddress = ZeroAddress
    THEN [err |-> "Mart_InvalidTokenAddress", args |-> <<>>]
    ELSE [err |-> "ok", args |-> <<>>]

\* The checks of the constructor (lines 511-518): "ok", or the error and
\* the values it carries.
constructor(tokenAddress, fee) ==
    IF tokenAddress = ZeroAddress
    THEN [err |-> "Mart_InvalidTokenAddress", args |-> <<>>]
    ELSE IF fee > 2000
    THEN [err |-> "Mart_PlatformFeeTooHigh", args |-> <<fee, 2000>>]
    ELSE [err |-> "ok", args |-> <<>>]

\* The fee rates with which a construction succeeds.
Constructed ==
    {fee \in FeeInputs :
        \E tokenAddress \in TokenInputs : constructor(tokenAddress, fee).err = "ok"}

Init ==
    /\ owner = Deployer
    /\ Martowner = Deployer
    /\ platformFeePercentage \in Constructed
    /\ productCounter = 0
    /\ platformBalance = 0
    /\ products = [i \in ProductIds |-> ZeroProduct]
    /\ sellers = [a \in Accounts |-> ZeroSeller]
    /\ hasPurchased = [a \in Accounts |-> [i \in ProductIds |-> FALSE]]
    /\ locked = FALSE
    /\ balanceOf = [h \in Holders |-> IF h = Mart THEN 0 ELSE InitialBalance]
    /\ allowance = InitialAllowance
    /\ pc = "idle"
    /\ frame = NoFrame
    /\ saved = NoSnapshot
    /\ lastResult = NoResult
    /\ lastEvent = NoEvent
    /\ paidIn = 0
    /\ sellerPaid = [a \in Accounts |-> 0]
    /\ platformPaid = 0
    /\ calls = IF platformFeePercentage = TestFeeBps THEN 0 ELSE MaxCalls - 2
    /\ client = Mounted
    /\ txs = NoTxs

\* ------------------------------------------------------- arithmetic of fees
\* The fee rounded up instead of truncated.
PlatformFeeRoundedUp(price, feeBps) ==
    (price * feeBps + BpsDenominator - 1) \div BpsDenominator

PlatformFee(price, feeBps) == (price * feeBps) \div BpsDenominator

\* The seller's share computed from the price on its own, as the
\* tests do ((price * (10000 - fee)) / 10000), so that the truncation is lost.
SellerAmountTruncated(price, feeBps) ==
    (price * (BpsDenominator - feeBps)) \div BpsDenominator

SellerAmount(price, feeBps) == price - PlatformFee(price, feeBps)

\* ---------------------------------------------------------------- checks
\* The first failing check of each entry point, "ok" when none fails.
\* The checks of listProduct without the name check of line 532.
ListProductCheckNoName(cid, price, name) ==
    IF cid = "" THEN "EmptyCID"
    ELSE IF price = 0 THEN "InvalidPrice"
    ELSE "ok"

\* The checks of listProduct with the price checked first.
ListProductCheckPriceFirst(cid, price, name) ==
    IF price = 0 THEN "InvalidPrice"
    ELSE IF cid = "" THEN "EmptyCID"
    ELSE IF name = "" THEN "EmptyName"
    ELSE "ok"

ListProductCheck(cid, price, name) ==
    IF cid = "" THEN "EmptyCID"
    ELSE IF price = 0 THEN "InvalidPrice"
    ELSE IF name = "" THEN "EmptyName"
    ELSE "ok"

\* The checks of purchaseProduct without the receipt check of line 560.
PurchaseCheckNoReceipt(caller, id) ==
    IF locked THEN "ReentrancyGuardReentrantCall"
    ELSE IF Product(id).id = 0 THEN "ProductDoesNotExist"
    ELSE IF ~Product(id).active THEN "ProductNotActive"
    ELSE IF Product(id).seller = caller THEN "CannotBuyOwnProduct"
    ELSE IF Product(id).price = 0 THEN "InvalidPrice"
    ELSE "ok"

\* The checks of purchaseProduct with the receipt check moved before the
\* activity check.
PurchaseCheckReordered(caller, id) ==
    IF locked THEN "ReentrancyGuardReentrantCall"
    ELSE IF Product(id).id = 0 THEN "ProductDoesNotExist"
    ELSE IF hasPurchased[caller][id] THEN "ProductAlreadyPurchased"
    ELSE IF ~Product(id).active THEN "ProductNotActive"
    ELSE IF Product(id).seller = caller THEN "CannotBuyOwnProduct"
    ELSE IF Product(id).price = 0 THEN "InvalidPrice"
    ELSE "ok"

\* The checks of purchaseProduct without the seller check of line 559.
PurchaseCheckNoSeller(caller, id) ==
    IF locked THEN "ReentrancyGuardReentrantCall"
    ELSE IF Product(id).id = 0 THEN "ProductDoesNotExist"
    ELSE IF ~Product(id).active THEN "ProductNotActive"
    ELSE IF hasPurchased[caller][id] THEN "ProductAlreadyPurchased"
    ELSE IF Product(id).price = 0 THEN "InvalidPrice"
    ELSE "ok"

\* The checks of purchaseProduct without the activity check of line 558.
PurchaseCheckNoActive(caller, id) ==
    IF locked THEN "ReentrancyGuardReentrantCall"
    ELSE IF Product(id).id = 0 THEN "ProductDoesNotExist"
    ELSE IF Product(id).seller = caller THEN "CannotBuyOwnProduct"
    ELSE IF hasPurchased[caller][id] THEN "ProductAlreadyPurchased"
    ELSE IF Product(id).price = 0 THEN "InvalidPrice"
    ELSE "ok"

PurchaseCheck(caller, id) ==
    IF locked THEN "ReentrancyGuardReentrantCall"
    ELSE IF Product(id).id = 0 THEN "ProductDoesNotExist"
    ELSE IF ~Product(id).active THEN "ProductNotActive"
    ELSE IF Product(id).seller = caller THEN "CannotBuyOwnProduct"
    ELSE IF hasPurchased[caller][id] THEN "ProductAlreadyPurchased"
    ELSE IF Product(id).price = 0 THEN "InvalidPrice"
    ELSE "ok"

WithdrawSellerCheck(caller) ==
    IF locked THEN "ReentrancyGuardReentrantCall"
    ELSE IF sellers[caller].balance = 0 THEN "NoBalanceToWithdraw"
    ELSE "ok"

WithdrawPlatformCheck(caller) ==
    IF caller # owner THEN "OwnableUnauthorizedAccount"
    ELSE IF ~(platformBalance > 0) THEN "No platform fees to withdraw"
    ELSE "ok"

\* Ownable: onlyOwner, then the zero-address check of transferOwnership.
TransferOwnershipCheck(caller, newOwner) ==
    IF caller # owner THEN "OwnableUnauthorizedAccount"
    ELSE IF newOwner = ZeroAddress THEN "OwnableInvalidOwner"
    ELSE "ok"

RenounceOwnershipCheck(caller) ==
    IF caller # owner THEN "OwnableUnauthorizedAccount" ELSE "ok"

\* The checks of deactivateProduct without the seller check of line 642.
DeactivateCheckAnyone(caller, id) ==
    IF ~Product(id).active THEN "ProductAlreadyInactive" ELSE "ok"

DeactivateCheck(caller, id) ==
    IF Product(id).seller # caller THEN "NotProductSeller"
    ELSE IF ~Product(id).active THEN "ProductAlreadyInactive"
    ELSE "ok"

ActivateCheck(caller, id) ==
    IF Product(id).seller # caller THEN "NotProductSeller"
    ELSE IF Product(id).active THEN "ProductAlreadyActive"
    ELSE "ok"

\* The checks of updateProductPrice without the price check of line 669.
UpdatePriceCheckAnyPrice(caller, id, newPrice) ==
    IF Product(id).seller # caller THEN "NotProductSeller" ELSE "ok"

UpdatePriceCheck(caller, id, newPrice) ==
    IF Product(id).seller # caller THEN "NotProductSeller"
    ELSE IF newPrice = 0 THEN "InvalidPrice"
    ELSE "ok"

\* ------------------------------------------------------------------ views
\* What a view returns: the value, or the error it reverted with.
Returned(value) == [err |-> "ok", value |-> value]

Reverted(err) == [err |-> err, value |-> ""]

\* getSellerProducts (lines 677-679), a view
getSellerProducts(seller) == sellers[seller].productIds

\* getProductCID with the access check on receipts alone.
getProductCIDBuyersOnly(caller, id) ==
    IF Product(id).id = 0 THEN Reverted("ProductDoesNotExist")
    ELSE IF ~hasPurchased[caller][id] THEN Reverted("AccessDenied")
    ELSE Returned(Product(id).cid)

\* getProductCID (lines 618-635), a view: it reads the state and writes
\* nothing.
getProductCID(caller, id) ==
    IF Product(id).id = 0 THEN Reverted("ProductDoesNotExist")
    ELSE IF ~hasPurchased[caller][id] /\ Product(id).seller # caller
    THEN Reverted("AccessDenied")
    ELSE Returned(Product(id).cid)

\* The views of a product read in a product store: the one of the ledger
\* (products), or one that differs from it.
\* products[_productId] in store
ProductIn(store, id) == IF id \in ProductIds THEN store[id] ELSE ZeroProduct

\* getProduct (lines 688-706): the product without its content id.
getProductIn(store, id) ==
    LET product == ProductIn(store, id)
    IN  [id |-> product.id, seller |-> product.seller,
         price |-> product.price, name |-> product.name,
         active |-> product.active, salesCount |-> product.salesCount]

getProduct(id) == getProductIn(products, id)

\* The getter of the public mapping products (line 491): every member of
\* the struct, the content id too.
productsGetterIn(store, id) ==
    LET product == ProductIn(store, id)
    IN  [id |-> product.id, seller |-> product.seller, cid |-> product.cid,
         price |-> product.price, name |-> product.name,
         active |-> product.active, salesCount |-> product.salesCount]

productsGetter(id) == productsGetterIn(products, id)

\* getProductCID (lines 618-635) read in store
getProductCIDIn(store, caller, id) ==
    IF ProductIn(store, id).id = 0 THEN Reverted("ProductDoesNotExist")
    ELSE IF ~hasPurchased[caller][id] /\ ProductIn(store, id).seller # caller
    THEN Reverted("AccessDenied")
    ELSE Returned(ProductIn(store, id).cid)

\* ERC20: transferFrom(from, Mart, amount) and transfer(to, amount) succeed
\* exactly when the funds (and the allowance) cover the amount.
CanTransferFrom(from, amount) ==
    allowance[from] >= amount /\ balanceOf[from] >= amount

CanTransfer(amount) == balanceOf[Mart] >= amount

\* ------------------------------------------------------- calls that revert
\* A reverted call leaves everything as it was; only its outcome is recorded.
Fail(op, err) ==
    /\ lastResult' = Result(op, err, pc # "idle")
    /\ UNCHANGED <<storage, token, pc, frame, saved, lastEvent, history,
                   calls>>

\* ------------------------------------------------ calls without a transfer
\* A listing that leaves out the push of line 546.
listProductUnindexed(caller, cid, price, name) ==
    LET err == ListProductCheck(cid, price, name)
        newId == productCounter + 1
    IN  IF err # "ok" THEN Fail("listProduct", err)
        ELSE /\ productCounter' = newId
             /\ products' = [products EXCEPT ![newId] =
                    [id |-> newId, seller |-> caller, cid |-> cid,
                     price |-> price, name |-> name, active |-> TRUE,
                     salesCount |-> 0]]
             /\ lastEvent' = [Event("ProductListed", newId, caller, caller,
                                    price, 0) EXCEPT !.cid = cid]
             /\ lastResult' = Result("listProduct", "ok", pc # "idle")
             /\ Counted
             /\ UNCHANGED <<owner, Martowner, platformFeePercentage,
                            platformBalance, hasPurchased, locked, token, pc,
                            frame, saved, history, sellers>>

\* listProduct (lines 525-551)
listProduct(caller, cid, price, name) ==
    LET err == ListProductCheck(cid, price, name)
        newId == productCounter + 1
    IN  IF err # "ok" THEN Fail("listProduct", err)
        ELSE /\ productCounter' = newId
             /\ products' = [products EXCEPT ![newId] =
                    [id |-> newId, seller |-> caller, cid |-> cid,
                     price |-> price, name |-> name, active |-> TRUE,
                     salesCount |-> 0]]
             /\ sellers' = [sellers EXCEPT ![caller].productIds =
                                               Append(@, newId)]
             /\ lastEvent' = [Event("ProductListed", newId, caller, caller,
                                    price, 0) EXCEPT !.cid = cid]
             /\ lastResult' = Result("listProduct", "ok", pc # "idle")
             /\ Counted
             /\ UNCHANGED <<owner, Martowner, platformFeePercentage,
                            platformBalance, hasPurchased, locked, token, pc,
                            frame, saved, history>>

deactivateProduct(caller, id) ==
    LET err == DeactivateCheck(caller, id)
    IN  IF err # "ok" THEN Fail("deactivateProduct", err)
        ELSE /\ products' = [products EXCEPT ![id].active = FALSE]
             /\ lastEvent' = Event("ProductDeactivated", id, ZeroAddress,
                                   ZeroAddress, 0, 0)
             /\ lastResult' = Result("deactivateProduct", "ok", pc # "idle")
             /\ Counted
             /\ UNCHANGED <<owner, Martowner, platformFeePercentage,
                            productCounter, platformBalance, sellers,
                            hasPurchased, locked, token, pc, frame, saved,
                            history>>

activateProduct(caller, id) ==
    LET err == ActivateCheck(caller, id)
    IN  IF err # "ok" THEN Fail("activateProduct", err)
        ELSE /\ products' = [products EXCEPT ![id].active = TRUE]
             /\ lastEvent' = Event("ProductActivated", id, ZeroAddress,
                                   ZeroAddress, 0, 0)
             /\ lastResult' = Result("activateProduct", "ok", pc # "idle")
             /\ Counted
             /\ UNCHANGED <<owner, Martowner, platformFeePercentage,
                            productCounter, platformBalance, sellers,
                            hasPurchased, locked, token, pc, frame, saved,
                            history>>

updateProductPrice(caller, id, newPrice) ==
    LET err == UpdatePriceCheck(caller, id, newPrice)
    IN  IF err # "ok" THEN Fail("updateProductPrice", err)
        ELSE /\ products' = [products EXCEPT ![id].price = newPrice]
             /\ lastEvent' = Event("ProductPriceUpdated", id, ZeroAddress,
                                   ZeroAddress, newPrice, 0)
             /\ lastResult' = Result("updateProductPrice", "ok", pc # "idle")
             /\ Counted
             /\ UNCHANGED <<owner, Martowner, platformFeePercentage,
                            productCounter, platformBalance, sellers,
                            hasPurchased, locked, token, pc, frame, saved,
                            history>>

\* The operations MneeMart inherits from Ownable (line 444), called as a
\* transaction's own calls.
transferOwnership(caller, newOwner) ==
    LET err == TransferOwnershipCheck(caller, newOwner)
    IN  IF err # "ok" THEN Fail("transferOwnership", err)
        ELSE /\ owner' = newOwner
             /\ lastEvent' = Event("OwnershipTransferred", 0, newOwner,
                                   ZeroAddress, 0, 0)
             /\ lastResult' = Result("transferOwnership", "ok", FALSE)
             /\ Counted
             /\ UNCHANGED <<Martowner, platformFeePercentage, productCounter,
                            platformBalance, products, sellers, hasPurchased,
                            locked, token, pc, frame, saved, history>>

renounceOwnership(caller) ==
    LET err == RenounceOwnershipCheck(caller)
    IN  IF err # "ok" THEN Fail("renounceOwnership", err)
        ELSE /\ owner' = ZeroAddress
             /\ lastEvent' = Event("OwnershipTransferred", 0, ZeroAddress,
                                   ZeroAddress, 0, 0)
             /\ lastResult' = Result("renounceOwnership", "ok", FALSE)
             /\ Counted
             /\ UNCHANGED <<Martowner, platformFeePercentage, productCounter,
                            platformBalance, products, sellers, hasPurchased,
                            locked, token, pc, frame, saved, history>>

\* A call of updatePlatformFee(uint256).  The contract declares the event
\* PlatformFeeUpdated (line 502) and no function of this name, and it has
\* neither a fallback nor a receive function: the dispatcher finds no
\* function for the selector and reverts with empty return data.
updatePlatformFee(caller, newFee) ==
    Fail("updatePlatformFee", "UnknownSelector")

\* ------------------------------------------------------ bookkeeping writes
\* The writes of lines 569-576 without the receipt of line 569.
PurchaseEffectsNoReceipt(caller, id) ==
    LET product == products[id]
    IN  /\ UNCHANGED hasPurchased
        /\ products' = [products EXCEPT ![id].salesCount = @ + 1]
        /\ sellers' = [sellers EXCEPT
               ![product.seller].totalSales = @ + 1,
               ![product.seller].totalEarnings =
                   @ + SellerAmount(product.price, platformFeePercentage),
               ![product.seller].balance =
                   @ + SellerAmount(product.price, platformFeePercentage)]
        /\ platformBalance' = platformBalance
               + PlatformFee(product.price, platformFeePercentage)

\* The writes of lines 569-576 with the buyer's other receipts overwritten.
PurchaseEffectsOverwriting(caller, id) ==
    LET product == products[id]
    IN  /\ hasPurchased' = [hasPurchased EXCEPT ![caller] =
                               [p \in ProductIds |-> p = id]]
        /\ products' = [products EXCEPT ![id].salesCount = @ + 1]
        /\ sellers' = [sellers EXCEPT
               ![product.seller].totalSales = @ + 1,
               ![product.seller].totalEarnings =
                   @ + SellerAmount(product.price, platformFeePercentage),
               ![product.seller].balance =
                   @ + SellerAmount(product.price, platformFeePercentage)]
        /\ platformBalance' = platformBalance
               + PlatformFee(product.price, platformFeePercentage)

\* The writes of lines 569-576 with the whole price credited to the balance.
PurchaseEffectsFullPrice(caller, id) ==
    LET product == products[id]
    IN  /\ hasPurchased' = [hasPurchased EXCEPT ![caller][id] = TRUE]
        /\ products' = [products EXCEPT ![id].salesCount = @ + 1]
        /\ sellers' = [sellers EXCEPT
               ![product.seller].totalSales = @ + 1,
               ![product.seller].totalEarnings =
                   @ + SellerAmount(product.price, platformFeePercentage),
               ![product.seller].balance = @ + product.price]
        /\ platformBalance' = platformBalance
               + PlatformFee(product.price, platformFeePercentage)

\* The writes of lines 569-576 without the seller's sales counter.
PurchaseEffectsSellerUncounted(caller, id) ==
    LET product == products[id]
        sellerAmount == SellerAmount(product.price, platformFeePercentage)
    IN  /\ hasPurchased' = [hasPurchased EXCEPT ![caller][id] = TRUE]
        /\ products' = [products EXCEPT ![id].salesCount = @ + 1]
        /\ sellers' = [sellers EXCEPT
               ![product.seller].totalEarnings = @ + sellerAmount,
               ![product.seller].balance = @ + sellerAmount]
        /\ platformBalance' = platformBalance
               + PlatformFee(product.price, platformFeePercentage)

\* purchaseProduct, lines 563-576: the writes made before the transfer.
PurchaseEffects(caller, id) ==
    LET product == products[id]
        platformFee == PlatformFee(product.price, platformFeePercentage)
        sellerAmount == SellerAmount(product.price, platformFeePercentage)
    IN  /\ hasPurchased' = [hasPurchased EXCEPT ![caller][id] = TRUE]
        /\ products' = [products EXCEPT ![id].salesCount = @ + 1]
        /\ sellers' = [sellers EXCEPT
                          ![product.seller].totalSales = @ + 1,
                          ![product.seller].totalEarnings = @ + sellerAmount,
                          ![product.seller].balance = @ + sellerAmount]
        /\ platformBalance' = platformBalance + platformFee

\* A withdrawal that leaves the caller's balance as it was.
BalanceKeptBySellerWithdraw(caller) == sellers[caller].balance

\* withdrawSellerBalance, line 596
BalanceAfterSellerWithdraw(caller) == 0

\* A platform withdrawal that leaves the accumulator as it was.
PlatformBalanceKept == platformBalance

\* withdrawPlatformFees, line 607
BalanceAfterPlatformWithdraw == 0

\* ERC20 transferFrom(from, address(this), amount)
TokenIn(from, amount) ==
    /\ balanceOf' = [balanceOf EXCEPT ![from] = @ - amount,
                                      ![Mart] = @ + amount]
    /\ allowance' = [allowance EXCEPT ![from] = @ - amount]

\* ERC20 transfer(to, amount) from the contract's custody
TokenOut(to, amount) ==
    /\ balanceOf' = [balanceOf EXCEPT ![Mart] = @ - amount, ![to] = @ + amount]
    /\ UNCHANGED allowance

\* The transaction reverts: all it wrote, nested calls included, is undone.
Revert(err) ==
    /\ platformBalance' = saved.platformBalance
    /\ productCounter' = saved.productCounter
    /\ products' = saved.products
    /\ sellers' = saved.sellers
    /\ hasPurchased' = saved.hasPurchased
    /\ balanceOf' = saved.balanceOf
    /\ allowance' = saved.allowance
    /\ lastEvent' = saved.lastEvent
    /\ paidIn' = saved.paidIn
    /\ sellerPaid' = saved.sellerPaid
    /\ platformPaid' = saved.platformPaid
    /\ locked' = FALSE
    /\ pc' = "idle"
    /\ frame' = NoFrame
    /\ saved' = NoSnapshot
    /\ lastResult' = Result(frame.op, err, FALSE)
    /\ UNCHANGED <<owner, Martowner, platformFeePercentage, calls>>

\* The call whose transfer was in flight returns.
Return ==
    /\ pc' = "idle"
    /\ frame' = NoFrame
    /\ saved' = NoSnapshot
    /\ lastResult' = Result(frame.op, "ok", FALSE)
    /\ UNCHANGED calls

\* ------------------------------------------------ calls with a transfer
\* purchaseProduct as a transaction's own call, up to the transfer request
\* (lines 553-583).
purchaseProduct(caller, id) ==
    LET err == PurchaseCheck(caller, id)
    IN  IF err # "ok" THEN Fail("purchaseProduct", err)
        ELSE /\ PurchaseEffects(caller, id)
             /\ locked' = TRUE
             /\ pc' = "purchase"
             /\ frame' = [op |-> "purchaseProduct", caller |-> caller,
                          productId |-> id, amount |-> products[id].price,
                          platformFee |-> PlatformFee(products[id].price,
                                                      platformFeePercentage)]
             /\ saved' = Snapshot
             /\ Counted
             /\ UNCHANGED <<owner, Martowner, platformFeePercentage,
                            productCounter, token, lastResult, lastEvent,
                            history>>

\* safeTransferFrom returns, then the event (lines 579-585)
PurchaseReturn ==
    /\ pc = "purchase"
    /\ IF CanTransferFrom(frame.caller, frame.amount)
       THEN /\ TokenIn(frame.caller, frame.amount)
            /\ lastEvent' = Event("ProductPurchased", frame.productId,
                                  frame.caller, products[frame.productId].seller,
                                  products[frame.productId].price,
                                  frame.platformFee)
            /\ paidIn' = paidIn + frame.amount
            /\ locked' = FALSE
            /\ Return
            /\ UNCHANGED <<owner, Martowner, platformFeePercentage,
                           productCounter, platformBalance, products, sellers,
                           hasPurchased, sellerPaid, platformPaid>>
       ELSE Revert("ERC20InsufficientFunds")

\* withdrawSellerBalance up to the transfer request (lines 590-597)
withdrawSellerBalance(caller) ==
    LET err == WithdrawSellerCheck(caller)
    IN  IF err # "ok" THEN Fail("withdrawSellerBalance", err)
        ELSE /\ sellers' = [sellers EXCEPT ![caller].balance =
                                BalanceAfterSellerWithdraw(caller)]
             /\ locked' = TRUE
             /\ pc' = "withdrawSeller"
             /\ frame' = [op |-> "withdrawSellerBalance", caller |-> caller,
                          productId |-> 0, amount |-> sellers[caller].balance,
                          platformFee |-> 0]
             /\ saved' = Snapshot
             /\ Counted
             /\ UNCHANGED <<owner, Martowner, platformFeePercentage,
                            productCounter, platformBalance, products,
                            hasPurchased, token, lastResult, lastEvent,
                            history>>

\* safeTransfer returns, then the event (lines 597-599)
WithdrawSellerReturn ==
    /\ pc = "withdrawSeller"
    /\ IF CanTransfer(frame.amount)
       THEN /\ TokenOut(frame.caller, frame.amount)
            /\ lastEvent' = Event("SellerWithdrawal", 0, frame.caller,
                                  ZeroAddress, frame.amount, 0)
            /\ sellerPaid' = [sellerPaid EXCEPT ![frame.caller] =
                                                    @ + frame.amount]
            /\ locked' = FALSE
            /\ Return
            /\ UNCHANGED <<owner, Martowner, platformFeePercentage,
                           productCounter, platformBalance, products, sellers,
                           hasPurchased, paidIn, platformPaid>>
       ELSE Revert("ERC20InsufficientFunds")

\* withdrawPlatformFees up to the transfer request (lines 603-610); the
\* function carries onlyOwner and no nonReentrant, so the lock is not taken.
withdrawPlatformFees(caller) ==
    LET err == WithdrawPlatformCheck(caller)
    IN  IF err # "ok" THEN Fail("withdrawPlatformFees", err)
        ELSE /\ platformBalance' = BalanceAfterPlatformWithdraw
             /\ pc' = "withdrawPlatform"
             /\ frame' = [op |-> "withdrawPlatformFees", caller |-> caller,
                          productId |-> 0, amount |-> platformBalance,
                          platformFee |-> 0]
             /\ saved' = Snapshot
             /\ Counted
             /\ UNCHANGED <<owner, Martowner, platformFeePercentage,
                            productCounter, products, sellers, hasPurchased,
                            locked, token, lastResult, lastEvent, history>>

\* transfer returns, then the event (lines 609-614)
WithdrawPlatformReturn ==
    /\ pc = "withdrawPlatform"
    /\ IF CanTransfer(frame.amount)
       THEN /\ TokenOut(Martowner, frame.amount)
            /\ lastEvent' = Event("PlatformWithdrawal", 0, Martowner,
                                  ZeroAddress, frame.amount, 0)
            /\ platformPaid' = platformPaid + frame.amount
            /\ Return
            /\ UNCHANGED <<storage, paidIn, sellerPaid>>
       ELSE Revert("MNEE withdrawal failed")

\* The token refuses the transfer in flight (a paused or blocking token):
\* safeTransferFrom / safeTransfer / require(transfer) revert the transaction.
TokenReverts ==
    /\ pc # "idle"
    /\ Revert("TransferFailed")

\* ------------------------------------------- the same calls, made nested
\* A call made into the contract from inside the transfer in flight runs to
\* its end before the token goes on; its own transfer moves the funds or,
\* when they do not suffice, reverts the nested call alone.
nestedPurchaseProduct(caller, id) ==
    LET err == PurchaseCheck(caller, id)
        price == products[id].price
    IN  IF err # "ok" THEN Fail("purchaseProduct", err)
        ELSE IF ~CanTransferFrom(caller, price)
        THEN Fail("purchaseProduct", "ERC20InsufficientFunds")
        ELSE /\ PurchaseEffects(caller, id)
             /\ TokenIn(caller, price)
             /\ lastEvent' = Event("ProductPurchased", id, caller,
                                   products[id].seller, price,
                                   PlatformFee(price, platformFeePercentage))
             /\ paidIn' = paidIn + price
             /\ lastResult' = Result("purchaseProduct", "ok", TRUE)
             /\ Counted
             /\ UNCHANGED <<owner, Martowner, platformFeePercentage,
                            productCounter, locked, pc, frame, saved,
                            sellerPaid, platformPaid>>

nestedWithdrawSellerBalance(caller) ==
    LET err == WithdrawSellerCheck(caller)
        amount == sellers[caller].balance
    IN  IF err # "ok" THEN Fail("withdrawSellerBalance", err)
        ELSE IF ~CanTransfer(amount)
        THEN Fail("withdrawSellerBalance", "ERC20InsufficientFunds")
        ELSE /\ sellers' = [sellers EXCEPT ![caller].balance =
                                BalanceAfterSellerWithdraw(caller)]
             /\ TokenOut(caller, amount)
             /\ lastEvent' = Event("SellerWithdrawal", 0, caller, ZeroAddress,
                                   amount, 0)
             /\ sellerPaid' = [sellerPaid EXCEPT ![caller] = @ + amount]
             /\ lastResult' = Result("withdrawSellerBalance", "ok", TRUE)
             /\ Counted
             /\ UNCHANGED <<owner, Martowner, platformFeePercentage,
                            productCounter, platformBalance, products,
                            hasPurchased, locked, pc, frame, saved, paidIn,
                            platformPaid>>

nestedWithdrawPlatformFees(caller) ==
    LET err == WithdrawPlatformCheck(caller)
        amount == platformBalance
    IN  IF err # "ok" THEN Fail("withdrawPlatformFees", err)
        ELSE IF ~CanTransfer(amount)
        THEN Fail("withdrawPlatformFees", "MNEE withdrawal failed")
        ELSE /\ platformBalance' = BalanceAfterPlatformWithdraw
             /\ TokenOut(Martowner, amount)
             /\ lastEvent' = Event("PlatformWithdrawal", 0, Martowner,
                                   ZeroAddress, amount, 0)
             /\ platformPaid' = platformPaid + amount
             /\ lastResult' = Result("withdrawPlatformFees", "ok", TRUE)
             /\ Counted
             /\ UNCHANGED <<owner, Martowner, platformFeePercentage,
                            productCounter, products, sellers, hasPurchased,
                            locked, pc, frame, saved, paidIn, sellerPaid>>

\* ------------------------------------------------------------------ actions
\* A transaction: one call by an externally chosen account.
ListProduct ==
    /\ pc = "idle"
    /\ productCounter < MaxProducts
    /\ \E caller \in Listers, cid \in CidInputs, price \in ListPriceInputs,
          name \in NameInputs : listProduct(caller, cid, price, name)

DeactivateProduct ==
    /\ pc = "idle"
    /\ \E caller \in Accounts, id \in IdInputs : deactivateProduct(caller, id)

ActivateProduct ==
    /\ pc = "idle"
    /\ \E caller \in Accounts, id \in IdInputs : activateProduct(caller, id)

UpdateProductPrice ==
    /\ pc = "idle"
    /\ \E caller \in Accounts, id \in IdInputs,
          newPrice \in UpdatePriceInputs :
          updateProductPrice(caller, id, newPrice)

PurchaseProduct ==
    /\ pc = "idle"
    /\ \E caller \in Accounts, id \in IdInputs : purchaseProduct(caller, id)

WithdrawSellerBalance ==
    /\ pc = "idle"
    /\ \E caller \in Accounts : withdrawSellerBalance(caller)

WithdrawPlatformFees ==
    /\ pc = "idle"
    /\ \E caller \in Accounts : withdrawPlatformFees(caller)

TransferOwnership ==
    /\ pc = "idle"
    /\ \E caller \in Accounts, newOwner \in OwnerInputs :
          transferOwnership(caller, newOwner)

RenounceOwnership ==
    /\ pc = "idle"
    /\ \E caller \in Accounts : renounceOwnership(caller)

UpdatePlatformFee ==
    /\ pc = "idle"
    /\ \E caller \in Accounts, newFee \in FeeUpdateInputs :
          updatePlatformFee(caller, newFee)

\* A call made by the token, or by a contract the token calls, from inside
\* the transfer in flight.
ReenterListProduct ==
    /\ pc # "idle"
    /\ productCounter < MaxProducts
    /\ \E caller \in Listers, price \in ListPrices :
          listProduct(caller, "QmA", price, "Art")

ReenterDeactivateProduct ==
    /\ pc # "idle"
    /\ \E caller \in Accounts, id \in ProductIds : deactivateProduct(caller, id)

ReenterActivateProduct ==
    /\ pc # "idle"
    /\ \E caller \in Accounts, id \in ProductIds : activateProduct(caller, id)

ReenterUpdateProductPrice ==
    /\ pc # "idle"
    /\ \E caller \in Accounts, id \in ProductIds,
          newPrice \in UpdatePrices :
          updateProductPrice(caller, id, newPrice)

ReenterPurchaseProduct ==
    /\ pc # "idle"
    /\ \E caller \in Accounts, id \in ProductIds :
          nestedPurchaseProduct(caller, id)

ReenterWithdrawSellerBalance ==
    /\ pc # "idle"
    /\ \E caller \in Accounts : nestedWithdrawSellerBalance(caller)

ReenterWithdrawPlatformFees ==
    /\ pc # "idle"
    /\ \E caller \in Accounts : nestedWithdrawPlatformFees(caller)

\* ------------------------------------------------------------ web client
\* The product page (part_005) mounted for one product, with the purchase
\* hook (use-purchase.ts) and the Lit service (lit.ts) behind it.
PageProductId == 1

\* The accounts that connect a wallet to the page.
Visitors == {"alice", "bob"}

isConnected == client.address # Null

\* price: product?.price || 0n (part_005 line 54)
flowPrice == client.product.price

\* use-purchase.ts lines 75-76
needsApproval == client.allowance # Undefined /\ client.allowance < flowPrice

hasInsufficientBalance ==
    client.balance # Undefined /\ client.balance < flowPrice

\* isSuccess of useWaitForTransactionReceipt for the hash the hook holds
\* (use-purchase.ts lines 63-71).
approvalConfirmed == txs.approve = "success"

\* A confirmation that takes the receipt of a reverted transaction too.
purchaseConfirmedOnAnyReceipt == txs.purchase \in {"success", "reverted"}

purchaseConfirmed == txs.purchase = "success"

\* part_005 lines 76-77
isSeller ==
    /\ client.address # Null
    /\ client.product.id # 0
    /\ client.product.seller = client.address

\* An access check that lets every connected visitor through.
canAccessAnyone == isConnected

canAccess == client.hasPurchased = "true" \/ isSeller

\* hasUserPurchased (part_001 lines 684-686), a view of the receipts.
hasUserPurchased(user, id) == id \in ProductIds /\ hasPurchased[user][id]

\* useAccount: the visitor connects a wallet.
Connect ==
    /\ client.address = Null
    /\ \E a \in Visitors : client' = [client EXCEPT !.address = a]
    /\ UNCHANGED <<ledger, txs>>

\* The reads of the page return what the ledger holds when they are served;
\* react-query serves them again on mount, on focus and on refetch.
FetchProduct ==
    /\ pc = "idle"
    /\ client' = [client EXCEPT !.product =
           IF Product(PageProductId).id = 0 THEN NoProduct
           ELSE [id |-> PageProductId,
                 seller |-> products[PageProductId].seller,
                 price |-> products[PageProductId].price]]
    /\ UNCHANGED <<ledger, txs>>

FetchHasPurchased ==
    /\ pc = "idle"
    /\ client.address # Null
    /\ client' = [client EXCEPT !.hasPurchased =
           IF hasUserPurchased(client.address, PageProductId)
           THEN "true" ELSE "false"]
    /\ UNCHANGED <<ledger, txs>>

FetchAllowance ==
    /\ pc = "idle"
    /\ client.address # Null
    /\ client' = [client EXCEPT !.allowance = allowance[client.address]]
    /\ UNCHANGED <<ledger, txs>>

FetchBalance ==
    /\ pc = "idle"
    /\ client.address # Null
    /\ client' = [client EXCEPT !.balance = balanceOf[client.address]]
    /\ UNCHANGED <<ledger, txs>>

\* handleApprove (use-purchase.ts lines 79-108) up to the wallet's prompt.
handleApprove ==
    /\ client.address # Null
    /\ client' = [client EXCEPT !.state = "approving", !.error = Null]
    /\ txs' = [txs EXCEPT !.approve = "prompt", !.amount = flowPrice]
    /\ UNCHANGED ledger

\* handlePurchase (lines 111-140) up to the wallet's prompt.
handlePurchase ==
    /\ client.address # Null
    /\ client' = [client EXCEPT !.state = "purchasing", !.error = Null]
    /\ txs' = [txs EXCEPT !.purchase = "prompt"]
    /\ UNCHANGED ledger

\* The page shows the purchase buttons to a connected visitor whose receipt
\* read has returned, who cannot access the file and is not the seller
\* (part_005 lines 283-363; the product is loaded, lines 146-178).
PurchaseButtonsShown ==
    /\ isConnected
    /\ client.product.id # 0
    /\ client.hasPurchased # "undefined"
    /\ ~canAccess
    /\ ~isSeller

\* The button "Approve MNEE" (part_005 lines 335-344).
ClickApprove ==
    /\ PurchaseButtonsShown
    /\ needsApproval
    /\ handleApprove

\* The button "Buy Now" (part_005 lines 345-361).
ClickBuyNow ==
    /\ PurchaseButtonsShown
    /\ ~needsApproval
    /\ ~hasInsufficientBalance
    /\ handlePurchase

\* An execute that goes to the purchase whatever the allowance.
ExecuteWithoutAllowanceCheck ==
    IF hasInsufficientBalance
    THEN /\ client' = [client EXCEPT !.error = "Insufficient MNEE balance",
                                     !.state = "error"]
         /\ UNCHANGED <<ledger, txs>>
    ELSE handlePurchase

\* execute (lines 160-172)
Execute ==
    IF hasInsufficientBalance
    THEN /\ client' = [client EXCEPT !.error = "Insufficient MNEE balance",
                                     !.state = "error"]
         /\ UNCHANGED <<ledger, txs>>
    ELSE IF needsApproval THEN handleApprove
    ELSE handlePurchase

\* reset (lines 175-180)
Reset ==
    /\ client' = [client EXCEPT !.state = "idle", !.error = Null]
    /\ txs' = [txs EXCEPT !.approve = "none", !.purchase = "none"]
    /\ UNCHANGED ledger

\* The wallet returns the hash of the approve: onSuccess (lines 92-94).
ApproveOnSuccess ==
    /\ txs.approve = "prompt"
    /\ client' = [client EXCEPT !.state = "waiting_approval"]
    /\ txs' = [txs EXCEPT !.approve = "pending"]
    /\ UNCHANGED ledger

\* The wallet refuses, or the request fails: onError (lines 95-100).
ApproveOnError ==
    /\ txs.approve = "prompt"
    /\ client' = [client EXCEPT !.error = "Transaction failed",
                                !.state = "error"]
    /\ txs' = [txs EXCEPT !.approve = "none", !.approvalFailed = TRUE]
    /\ UNCHANGED ledger

\* The approve is mined: ERC20 approve(spender, amount) of MockMNEE.
MineApprove ==
    /\ pc = "idle"
    /\ txs.approve = "pending"
    /\ allowance' = [allowance EXCEPT ![client.address] = txs.amount]
    /\ txs' = [txs EXCEPT !.approve = "success", !.approvalFailed = FALSE]
    /\ UNCHANGED <<storage, balanceOf, pc, frame, saved, lastResult,
                   lastEvent, history, calls, client>>

\* The effect of lines 143-149.
ApprovalConfirmedEffect ==
    /\ approvalConfirmed
    /\ client.state = "waiting_approval"
    /\ client' = [client EXCEPT !.state = "idle"]
    /\ txs' = [txs EXCEPT !.approve = "none"]
    /\ UNCHANGED ledger

\* onSuccess of the purchase (lines 123-125)
PurchaseOnSuccess ==
    /\ txs.purchase = "prompt"
    /\ client' = [client EXCEPT !.state = "waiting_purchase"]
    /\ txs' = [txs EXCEPT !.purchase = "pending"]
    /\ UNCHANGED ledger

\* onError of the purchase (lines 126-131)
PurchaseOnError ==
    /\ txs.purchase = "prompt"
    /\ client' = [client EXCEPT !.error = "Transaction failed",
                                !.state = "error"]
    /\ txs' = [txs EXCEPT !.purchase = "none", !.purchaseFailed = TRUE]
    /\ UNCHANGED ledger

\* The purchase the hook wrote is mined: purchaseProduct(productId), called
\* by the connected account.
MinePurchase ==
    /\ pc = "idle"
    /\ txs.purchase = "pending"
    /\ purchaseProduct(client.address, PageProductId)
    /\ txs' = [txs EXCEPT !.purchase =
           IF PurchaseCheck(client.address, PageProductId) = "ok"
           THEN "executing" ELSE "reverted"]
    /\ UNCHANGED client

\* The transfer of a purchase returns; when it is the purchase the hook
\* waits for, the receipt says how it ended.
ClientPurchaseReturn ==
    /\ PurchaseReturn
    /\ txs' = IF txs.purchase # "executing" THEN txs
              ELSE IF CanTransferFrom(frame.caller, frame.amount)
              THEN [txs EXCEPT !.purchase = "success",
                               !.purchaseFailed = FALSE]
              ELSE [txs EXCEPT !.purchase = "reverted"]
    /\ UNCHANGED client

\* The effect of lines 152-157.
PurchaseConfirmedEffect ==
    /\ purchaseConfirmed
    /\ client.state = "waiting_purchase"
    /\ client' = [client EXCEPT !.state = "success"]
    /\ txs' = [txs EXCEPT !.reachedSuccess = TRUE]
    /\ UNCHANGED ledger

\* ------------------------------------------------------------ Lit service
\* The access predicate stored with the ciphertext, as the Lit nodes
\* evaluate it for a user against the ledger.
\* createEvmContractConditions (lit.ts lines 58-78): hasUserPurchased alone.
createEvmContractConditions(user, id) == hasUserPurchased(user, id)

\* createAccessControlConditions (part_003 lines 213-232): hasUserPurchased
\* alone.
createAccessControlConditions(user, id) == hasUserPurchased(user, id)

\* createUnifiedAccessControlConditions (lit.ts lines 374-439):
\* hasUserPurchased, operator "or", products(productId).seller = :userAddress.
createUnifiedAccessControlConditions(user, id) ==
    \/ hasUserPurchased(user, id)
    \/ Product(id).seller = user

\* The conditions a product's metadata.json carries (metadata.lit): those
\* of encryptFile in lit.ts lines 91-128, or those of lines 452-492.
Conditions == {"evmContractConditions", "unifiedAccessControlConditions"}

\* The nodes' evaluation of the stored conditions for a user.
Authorizes(conditions, user, id) ==
    IF conditions = "unifiedAccessControlConditions"
    THEN createUnifiedAccessControlConditions(user, id)
    ELSE createEvmContractConditions(user, id)

\* What decryptFile throws: the nodes' refusal or a failure to reach them,
\* as an Error or as a value that is no Error (the SDK decides).
LitErrors == [kind : {"NotAuthorized", "Network"}, isError : BOOLEAN]

Thrown(kind, isError) == [kind |-> kind, isError |-> isError]

MessageOf(e) ==
    IF e.kind = "NotAuthorized" THEN "not authorized" ELSE "network error"

\* A decryptFile that hands the plaintext to whoever reaches the network.
decryptFileUnchecked(user, id, conditions, reachable, isError) ==
    IF ~reachable THEN [ok |-> FALSE, error |-> Thrown("Network", isError)]
    ELSE [ok |-> TRUE, error |-> Thrown("NotAuthorized", FALSE)]

\* decryptFile (lit.ts lines 134-236 and 497-637): the plaintext when the
\* network is reached and the stored conditions hold for the signer on the
\* ledger; otherwise the error of the SDK, logged and thrown on as it came
\* (lines 613-636).
decryptFile(user, id, conditions, reachable, isError) ==
    IF ~reachable THEN [ok |-> FALSE, error |-> Thrown("Network", isError)]
    ELSE IF ~Authorizes(conditions, user, id)
    THEN [ok |-> FALSE, error |-> Thrown("NotAuthorized", isError)]
    ELSE [ok |-> TRUE, error |-> Thrown("NotAuthorized", FALSE)]

\* ------------------------------------------------------------ decrypt flow
\* useMetadata(product?.cid) (part_005 line 48): metadata.json of the
\* product's directory, with the conditions its uploader encrypted under.
FetchMetadata ==
    /\ client.product.id # 0
    /\ client.metadata = "undefined"
    /\ \E conditions \in Conditions :
          client' = [client EXCEPT !.metadata = conditions]
    /\ UNCHANGED <<ledger, txs>>

\* What the catch of handleDecrypt (part_005 lines 133-142) leaves in the
\* page for a thrown value.
Caught(e) ==
    [client EXCEPT
        !.decryptError = IF e.isError THEN MessageOf(e)
                         ELSE "Decryption failed",
        !.decryptState = "error"]

\* The button "Decrypt & Download" (part_005 lines 296-330) and
\* handleDecrypt up to its first await (lines 83-88).
ClickDecrypt ==
    /\ isConnected
    /\ client.product.id # 0
    /\ client.hasPurchased # "undefined"
    /\ canAccess
    /\ client.decryptState \in {"idle", "success", "error"}
    /\ client.metadata # "undefined"
    /\ client' = [client EXCEPT !.decryptState = "connecting_lit",
                                !.decryptError = Null]
    /\ UNCHANGED <<ledger, txs>>

\* handleDecrypt, lines 90-105: the wallet client is there.
GetWalletClient ==
    /\ client.decryptState = "connecting_lit"
    /\ client' = [client EXCEPT !.decryptState = "decrypting"]
    /\ UNCHANGED <<ledger, txs>>

\* handleDecrypt, lines 107-142: decryptFile answers; the file is downloaded,
\* or the catch keeps the message of the error.
DecryptFileSettles ==
    /\ pc = "idle"
    /\ client.decryptState = "decrypting"
    /\ \E reachable \in BOOLEAN, isError \in BOOLEAN :
          LET r == decryptFile(client.address, PageProductId,
                               client.metadata, reachable, isError)
          IN  client' =
                  IF r.ok
                  THEN [client EXCEPT !.decryptState = "success",
                                      !.downloads = 1]
                  ELSE Caught(r.error)
    /\ UNCHANGED <<ledger, txs>>

\* A seller lists the product the page shows (a valid listing at the
\* listing price).
SellerLists ==
    /\ pc = "idle"
    /\ productCounter < PageProductId
    /\ \E caller \in Listers, cid \in CidInputs \ {""},
          price \in ListPrices, name \in NameInputs \ {""} :
          listProduct(caller, cid, price, name)
    /\ UNCHANGED web

\* The contract as deployed by the tests, and the page just mounted.
InitProductPage == Init /\ platformFeePercentage = TestFeeBps

\* ------------------------------------------------------------ create page
\* useProductCounter (use-products.ts lines 16-21), read by the create page
\* (create/page.tsx line 51).
FetchProductCounter ==
    /\ pc = "idle"
    /\ client' = [client EXCEPT !.productCounter = productCounter]
    /\ UNCHANGED <<ledger, txs>>

\* create/page.tsx line 139: productCounter ? Number(productCounter) + 1 : 1
nextProductId ==
    IF client.productCounter \in {Undefined, 0} THEN 1
    ELSE client.productCounter + 1

\* handleSubmit up to the encryption (lines 121-145): the file is encrypted
\* under the predicate of the predicted id.
HandleSubmit ==
    /\ client.address # Null
    /\ client.uploadState \in {"idle", "error"}
    /\ client' = [client EXCEPT !.uploadState = "encrypting",
                                !.nextProductId = nextProductId]
    /\ UNCHANGED <<ledger, txs>>

\* handleSubmit, lines 147-189: the directory is uploaded and listProduct is
\* handed to the wallet.
UploadedAndWritten ==
    /\ client.uploadState = "encrypting"
    /\ client' = [client EXCEPT !.uploadState = "listing"]
    /\ txs' = [txs EXCEPT !.list = "prompt"]
    /\ UNCHANGED ledger

\* handleSubmit's catch (lines 205-214): encryption or upload failed.
UploadFails ==
    /\ client.uploadState = "encrypting"
    /\ client' = [client EXCEPT !.uploadState = "error"]
    /\ UNCHANGED <<ledger, txs>>

\* onSuccess of the listing (lines 190-193)
ListOnSuccess ==
    /\ txs.list = "prompt"
    /\ client' = [client EXCEPT !.uploadState = "waiting_tx"]
    /\ txs' = [txs EXCEPT !.list = "pending"]
    /\ UNCHANGED ledger

\* onError of the listing (lines 194-202)
ListOnError ==
    /\ txs.list = "prompt"
    /\ client' = [client EXCEPT !.uploadState = "error"]
    /\ txs' = [txs EXCEPT !.list = "none"]
    /\ UNCHANGED ledger

\* The listing is mined: listProduct assigns productCounter + 1, the id of
\* the event ProductListed.
MineListing ==
    /\ pc = "idle"
    /\ txs.list = "pending"
    /\ productCounter < MaxProducts
    /\ \E cid \in CidInputs \ {""}, price \in ListPrices,
          name \in NameInputs \ {""} :
          listProduct(client.address, cid, price, name)
    /\ client' = [client EXCEPT !.listedId = productCounter + 1]
    /\ txs' = [txs EXCEPT !.list = "success"]

\* The listing is confirmed (lines 217-226).
ListingConfirmed ==
    /\ txs.list = "success"
    /\ client.uploadState = "waiting_tx"
    /\ client' = [client EXCEPT !.uploadState = "success"]
    /\ UNCHANGED <<ledger, txs>>

\* Another seller's listing is mined.
OtherSellerLists ==
    /\ pc = "idle"
    /\ productCounter < MaxProducts
    /\ \E caller \in Listers \ {client.address}, cid \in CidInputs \ {""},
          price \in ListPrices, name \in NameInputs \ {""} :
          listProduct(caller, cid, price, name)
    /\ UNCHANGED web

NextCreatePage ==
    \/ Connect
    \/ FetchProductCounter
    \/ HandleSubmit
    \/ UploadedAndWritten
    \/ UploadFails
    \/ ListOnSuccess
    \/ ListOnError
    \/ MineListing
    \/ ListingConfirmed
    \/ OtherSellerLists

SpecCreatePage == InitProductPage /\ [][NextCreatePage]_vars

\* ------------------------------------------------ the nodes and the ledger
\* An account calls decryptFile with its own signer for the content of the
\* product, whatever a page shows it; the nodes answer from the ledger as it
\* is between two transactions.
RequestDecrypt(user, conditions, reachable, isError) ==
    LET r == decryptFile(user, PageProductId, conditions, reachable, isError)
    IN  /\ pc = "idle"
        /\ txs' = [txs EXCEPT
               !.lit = [user |-> user,
                        answer |-> IF r.ok THEN "plaintext"
                                   ELSE r.error.kind],
               !.refused = IF ~r.ok /\ r.error.kind = "NotAuthorized"
                           THEN @ \cup {user} ELSE @,
               !.released = IF r.ok THEN @ \cup {user} ELSE @]
        /\ UNCHANGED <<ledger, client>>

DecryptRequested ==
    \E user \in Accounts, conditions \in Conditions,
       reachable \in BOOLEAN, isError \in BOOLEAN :
        RequestDecrypt(user, conditions, reachable, isError)

\* Any account sends purchaseProduct for the product.
AccountBuys ==
    /\ pc = "idle"
    /\ \E caller \in Accounts : purchaseProduct(caller, PageProductId)
    /\ UNCHANGED web

NextLit ==
    \/ SellerLists
    \/ AccountBuys
    \/ ClientPurchaseReturn
    \/ DecryptRequested

SpecLit == InitProductPage /\ [][NextLit]_vars

\* The connected account buys the product in another session of its wallet.
BuysElsewhere ==
    /\ pc = "idle"
    /\ client.address # Null
    /\ txs.purchase \notin {"pending", "executing"}
    /\ PurchaseCheck(client.address, PageProductId) = "ok"
    /\ purchaseProduct(client.address, PageProductId)
    /\ UNCHANGED web

\* An approve of the connected account is mined that the hook does not
\* wait for: one written in another session, or one whose hash the hook
\* has dropped.
ApprovesElsewhere ==
    /\ pc = "idle"
    /\ client.address # Null
    /\ txs.approve # "pending"
    /\ \E amount \in ListPrices :
          /\ allowance[client.address] # amount
          /\ allowance' = [allowance EXCEPT ![client.address] = amount]
    /\ txs' = [txs EXCEPT !.approvalFailed = FALSE]
    /\ UNCHANGED <<storage, balanceOf, pc, frame, saved, lastResult,
                   lastEvent, history, calls, client>>

NextProductPage ==
    \/ SellerLists
    \/ BuysElsewhere
    \/ ApprovesElsewhere
    \/ ClientPurchaseReturn
    \/ Connect
    \/ FetchProduct
    \/ FetchHasPurchased
    \/ FetchAllowance
    \/ FetchBalance
    \/ ClickApprove
    \/ ClickBuyNow
    \/ Execute
    \/ Reset
    \/ ApproveOnSuccess
    \/ ApproveOnError
    \/ MineApprove
    \/ ApprovalConfirmedEffect
    \/ PurchaseOnSuccess
    \/ PurchaseOnError
    \/ MinePurchase
    \/ PurchaseConfirmedEffect
    \/ FetchMetadata
    \/ ClickDecrypt
    \/ GetWalletClient
    \/ DecryptFileSettles

SpecProductPage == InitProductPage /\ [][NextProductPage]_vars

\* What goes on without the visitor: the wallet answers a request it was
\* handed (one of the two callbacks runs), the chain mines a transaction it
\* was sent and ends the transfer of a call, and React runs an effect whose
\* condition holds.
HookProgress ==
    \/ ApproveOnSuccess
    \/ ApproveOnError
    \/ MineApprove
    \/ ApprovalConfirmedEffect
    \/ PurchaseOnSuccess
    \/ PurchaseOnError
    \/ MinePurchase
    \/ ClientPurchaseReturn
    \/ PurchaseConfirmedEffect

SpecProductPageFair ==
    /\ SpecProductPage
    /\ WF_vars(ApproveOnSuccess \/ ApproveOnError)
    /\ WF_vars(MineApprove)
    /\ WF_vars(ApprovalConfirmedEffect)
    /\ WF_vars(PurchaseOnSuccess \/ PurchaseOnError)
    /\ WF_vars(MinePurchase)
    /\ WF_vars(ClientPurchaseReturn)
    /\ WF_vars(PurchaseConfirmedEffect)

\* ------------------------------------------------------------------ retry
\* The largest maxAttempts a caller passes.
MaxAttempts == 4

MaxAttemptsInputs == 0..MaxAttempts

\* baseDelayMs: the default, and a shorter one
BaseDelayInputs == {1000, 250}

\* The value fn resolves with, and the value it rejects with, in its
\* attempt-th call; thrown as an Error or as another value.
ValueOf(attempt) == attempt

Rejection(attempt, isError) ==
    [attempt |-> attempt, instanceofError |-> isError]

\* error instanceof Error ? error : new Error(String(error)) (line 186)
AsError(e) == [e EXCEPT !.instanceofError = TRUE]

\* baseDelayMs * Math.pow(2, attempt - 1) (line 189)
Delay(baseDelayMs, attempt) == baseDelayMs * 2 ^ (attempt - 1)

\* A guard that lets the delay follow the last attempt too.
AnotherAttemptOrLast(attempt, maxAttempts) == attempt <= maxAttempts

\* attempt < maxAttempts (line 188)
AnotherAttempt(attempt, maxAttempts) == attempt < maxAttempts

\* The head of the loop (line 182) with the attempt counter at attempt: the
\* next call of fn, or throw lastError (line 196).
LoopHead(run, attempt) ==
    IF attempt <= run.maxAttempts
    THEN [run EXCEPT !.attempt = attempt, !.pc = "call"]
    ELSE [run EXCEPT !.attempt = attempt, !.pc = "thrown",
                     !.error = run.lastError]

\* retry(fn, maxAttempts, baseDelayMs) is called (lines 176-182).
retry(maxAttempts, baseDelayMs) ==
    /\ client.retry.pc \in {"none", "returned", "thrown"}
    /\ client' = [client EXCEPT !.retry =
           LoopHead([NoRetry EXCEPT !.maxAttempts = maxAttempts,
                                    !.baseDelayMs = baseDelayMs], 1)]
    /\ UNCHANGED <<ledger, txs>>

Retry ==
    \E maxAttempts \in MaxAttemptsInputs, baseDelayMs \in BaseDelayInputs :
        retry(maxAttempts, baseDelayMs)

\* return await fn() (line 184): fn resolves.
FnResolves ==
    /\ client.retry.pc = "call"
    /\ client' = [client EXCEPT !.retry =
           [@ EXCEPT !.calls = @ + 1, !.pc = "returned",
                     !.result = ValueOf(client.retry.attempt)]]
    /\ UNCHANGED <<ledger, txs>>

\* fn rejects: the catch block (lines 185-192).
FnRejects ==
    /\ client.retry.pc = "call"
    /\ \E isError \in BOOLEAN :
          LET run == [client.retry EXCEPT
                          !.calls = @ + 1,
                          !.lastError =
                              AsError(Rejection(client.retry.attempt, isError))]
          IN  client' = [client EXCEPT !.retry =
                  IF AnotherAttempt(run.attempt, run.maxAttempts)
                  THEN [run EXCEPT !.pc = "sleep"]
                  ELSE LoopHead(run, run.attempt + 1)]
    /\ UNCHANGED <<ledger, txs>>

\* await sleep(delay) (lines 189-190) is over; the loop goes on.
SleepEnds ==
    /\ client.retry.pc = "sleep"
    /\ client' = [client EXCEPT !.retry =
           LoopHead([client.retry EXCEPT !.delays =
                         Append(@, Delay(client.retry.baseDelayMs,
                                         client.retry.attempt))],
                    client.retry.attempt + 1)]
    /\ UNCHANGED <<ledger, txs>>

NextRetry ==
    \/ Retry
    \/ FnResolves
    \/ FnRejects
    \/ SleepEnds

\* fn settles and the timer of sleep fires.
SpecRetry ==
    /\ Init
    /\ [][NextRetry]_vars
    /\ WF_vars(FnResolves \/ FnRejects)
    /\ WF_vars(SleepEnds)

\* ------------------------------------------------------------ specification
\* The calls and returns under a token that neither calls back nor refuses.
NextWellBehaved ==
    \/ ListProduct /\ UNCHANGED web
    \/ DeactivateProduct /\ UNCHANGED web
    \/ ActivateProduct /\ UNCHANGED web
    \/ UpdateProductPrice /\ UNCHANGED web
    \/ PurchaseProduct /\ UNCHANGED web
    \/ PurchaseReturn /\ UNCHANGED web
    \/ WithdrawSellerBalance /\ UNCHANGED web
    \/ WithdrawSellerReturn /\ UNCHANGED web
    \/ WithdrawPlatformFees /\ UNCHANGED web
    \/ WithdrawPlatformReturn /\ UNCHANGED web
    \/ TransferOwnership /\ UNCHANGED web
    \/ RenounceOwnership /\ UNCHANGED web
    \/ UpdatePlatformFee /\ UNCHANGED web

Reenter ==
    \/ ReenterListProduct /\ UNCHANGED web
    \/ ReenterDeactivateProduct /\ UNCHANGED web
    \/ ReenterActivateProduct /\ UNCHANGED web
    \/ ReenterUpdateProductPrice /\ UNCHANGED web
    \/ ReenterPurchaseProduct /\ UNCHANGED web
    \/ ReenterWithdrawSellerBalance /\ UNCHANGED web
    \/ ReenterWithdrawPlatformFees /\ UNCHANGED web

\* The contract by itself: no client is connected.
Next == NextWellBehaved \/ Reenter \/ (TokenReverts /\ UNCHANGED web)

Spec == Init /\ [][Next]_vars

SpecWellBehaved == Init /\ [][NextWellBehaved]_vars

\* ------------------------------------------------------------------ sums
RECURSIVE SumOver(_, _)
SumOver(f, S) ==
    IF S = {} THEN 0
    ELSE LET x == CHOOSE y \in S : TRUE IN f[x] + SumOver(f, S \ {x})

SellerBalances == SumOver([a \in Accounts |-> sellers[a].balance], Accounts)

Withdrawn == SumOver(sellerPaid, Accounts) + platformPaid

\* The amount of the transfer in flight, towards and out of the contract.
PendingIn == IF pc = "purchase" THEN frame.amount ELSE 0

PendingOut ==
    IF pc \in {"withdrawSeller", "withdrawPlatform"} THEN frame.amount ELSE 0

\* ------------------------------------------------------------------ C1
\* C1: in every state the sellers' withdrawable balances, the platform
\* accumulator and all amounts already withdrawn add up to the prices paid in
\* the completed purchases; while a transfer is in flight its amount is the
\* only difference (credited and not yet paid, or zeroed and not yet sent).
C1_Conservation ==
    SellerBalances + platformBalance + Withdrawn + PendingOut
        = paidIn + PendingIn

\* C1 witness: between transactions, after a purchase and a platform
\* withdrawal, with a seller still holding a balance.
C1_Witness ==
    /\ pc = "idle"
    /\ paidIn > 0
    /\ platformPaid > 0
    /\ \E a \in Accounts : sellers[a].balance > 0

\* ------------------------------------------------------------------ C2
FeeGridPrices == 1..120
FeeGridRates == {0, 1, 99, 100, 499, 500, 1999, MaxFeeBps}

\* The arithmetic of lines 563-564 over a grid of prices and fee rates.
FeeGrid ==
    \A P \in FeeGridPrices, F \in FeeGridRates :
        /\ PlatformFee(P, F) = (P * F) \div 10000
        /\ SellerAmount(P, F) = P - (P * F) \div 10000
        /\ PlatformFee(P, F) + SellerAmount(P, F) = P
        /\ PlatformFee(P, F) >= 0 /\ PlatformFee(P, F) <= P
        /\ SellerAmount(P, F) >= 0 /\ SellerAmount(P, F) <= P

\* The step of a purchase by caller of product id that passed its checks.
PurchaseApplied(caller, id) ==
    \/ pc = "idle" /\ pc' = "purchase" /\ purchaseProduct(caller, id)
    \/ /\ pc # "idle" /\ lastResult'.err = "ok"
       /\ nestedPurchaseProduct(caller, id)

\* Every step of purchaseProduct, top-level or nested, requests the transfer
\* of a purchase or leaves the result of a purchaseProduct call.
PurchaseCalled == pc' = "purchase" \/ lastResult'.op = "purchaseProduct"

\* Every step of withdrawSellerBalance, top-level or nested, requests the
\* transfer of a withdrawal or leaves the result of a withdrawSellerBalance
\* call.
SellerWithdrawalCalled ==
    pc' = "withdrawSeller" \/ lastResult'.op = "withdrawSellerBalance"

\* C2: a purchase that passes its checks credits the platform accumulator
\* with exactly fee = (P * F) div 10000 and the seller's balance with exactly
\* P - fee, the two credits add up to P, the amount asked of the buyer, and
\* neither exceeds P; the fee rate is at most 2000.
C2_Step ==
    \A caller \in Accounts, id \in ProductIds :
        PurchaseApplied(caller, id) =>
            LET P == products[id].price
                F == platformFeePercentage
                fee == (P * F) \div 10000
                seller == products[id].seller
                dPlatform == platformBalance' - platformBalance
                dSeller == sellers'[seller].balance - sellers[seller].balance
            IN  /\ P > 0 /\ F >= 0 /\ F <= 2000
                /\ dPlatform = fee
                /\ dSeller = P - fee
                /\ dPlatform + dSeller = P
                /\ dPlatform <= P /\ dSeller <= P
                /\ \A a \in Accounts \ {seller} : sellers'[a] = sellers[a]
                /\ pc = "idle" => frame'.amount = P

\* The grid does not depend on the state: it is evaluated with the first call.
C2_FeeSplit == [][(calls = 0 => FeeGrid) /\ C2_Step]_vars

\* C2 witness: a purchase in flight whose fee was truncated (2.5 to 2).
C2_Witness ==
    /\ pc = "purchase"
    /\ frame.amount = 50
    /\ frame.platformFee = 2
    /\ platformBalance = 2
    /\ \E a \in Accounts : sellers[a].balance = 48

\* ------------------------------------------------------------------ C3
\* C3: while the transfer of purchaseProduct, withdrawSellerBalance or
\* withdrawPlatformFees is in flight the lock is held, and every call made
\* from inside that transfer into a state-mutating operation is rejected and
\* changes no state.
C3_LockHeldNestedRejected ==
    [][/\ pc # "idle" => locked
       /\ Reenter => /\ lastResult'.err # "ok"
                     /\ UNCHANGED <<storage, token, history>>]_vars

\* C3 in the code: the transfer of withdrawPlatformFees is in flight, the
\* lock is free, and a listProduct called from inside the transfer was served.
C3_Witness ==
    /\ pc = "withdrawPlatform"
    /\ ~locked
    /\ lastResult = Result("listProduct", "ok", TRUE)
    /\ productCounter = 2

\* ------------------------------------------------------------------ C4
\* The step that requests the transfer of a purchase by caller of product id.
PurchaseRequested(caller, id) ==
    pc = "idle" /\ pc' = "purchase" /\ purchaseProduct(caller, id)

\* The step in which the transfer of a purchase returns successfully.
PurchaseTransferred ==
    pc = "purchase" /\ lastResult'.err = "ok" /\ PurchaseReturn

\* C4: when purchaseProduct requests the transfer, the receipt, the product
\* and seller sales counters, the seller's balance and lifetime earnings and
\* platformBalance are already written and no token has moved; the step in
\* which the transfer returns writes none of them; during the transfer the
\* receipt is set, and a nested purchase of the same product by the same
\* buyer is rejected and credits nothing.
C4_EffectsBeforeTransfer ==
    [][/\ \A caller \in Accounts, id \in ProductIds :
            PurchaseRequested(caller, id) =>
                LET seller == products[id].seller
                    fee == (products[id].price * platformFeePercentage)
                               \div 10000
                    share == products[id].price - fee
                IN  /\ ~hasPurchased[caller][id]
                    /\ hasPurchased'[caller][id]
                    /\ products'[id].salesCount = products[id].salesCount + 1
                    /\ sellers'[seller].totalSales =
                           sellers[seller].totalSales + 1
                    /\ sellers'[seller].balance =
                           sellers[seller].balance + share
                    /\ sellers'[seller].totalEarnings =
                           sellers[seller].totalEarnings + share
                    /\ platformBalance' = platformBalance + fee
                    /\ UNCHANGED <<token, paidIn>>
       /\ PurchaseTransferred =>
            /\ UNCHANGED <<productCounter, platformBalance, products,
                           sellers, hasPurchased>>
            /\ balanceOf'[Mart] = balanceOf[Mart] + frame.amount
       /\ pc = "purchase" =>
            /\ hasPurchased[frame.caller][frame.productId]
            /\ (PurchaseCalled
                  /\ nestedPurchaseProduct(frame.caller, frame.productId)) =>
                   /\ lastResult'.err # "ok"
                   /\ UNCHANGED <<storage, token, history>>]_vars

\* C4 witness: a purchase whose transfer is in flight, credited in full while
\* the custody account has received nothing, after a nested purchase from
\* inside the transfer was rejected.
C4_Witness ==
    /\ pc = "purchase"
    /\ hasPurchased[frame.caller][frame.productId]
    /\ products[frame.productId].salesCount = 1
    /\ platformBalance = frame.platformFee
    /\ frame.platformFee > 0
    /\ sellers[products[frame.productId].seller].balance =
           frame.amount - frame.platformFee
    /\ balanceOf[Mart] = 0
    /\ lastResult = Result("purchaseProduct", "ReentrancyGuardReentrantCall",
                           TRUE)

\* ------------------------------------------------------------------ C5
\* The amount on its way to account a in a seller withdrawal in flight.
PendingTo(a) ==
    IF pc = "withdrawSeller" /\ frame.caller = a THEN frame.amount ELSE 0

\* During the transfer of a seller withdrawal the caller's balance is zero,
\* and what an account was paid, is being paid and may still withdraw is
\* what it has earned.
SellerLedger ==
    /\ pc = "withdrawSeller" =>
           /\ sellers[frame.caller].balance = 0
           /\ frame.amount > 0
    /\ \A a \in Accounts :
           /\ sellerPaid[a] + PendingTo(a) + sellers[a].balance
                  = sellers[a].totalEarnings
           /\ sellerPaid[a] + PendingTo(a) <= sellers[a].totalEarnings

\* The step in which the transfer of a seller withdrawal returns successfully.
SellerTransferred ==
    pc = "withdrawSeller" /\ lastResult'.err = "ok" /\ WithdrawSellerReturn

\* C5: withdrawSellerBalance zeroes the caller's balance before it requests
\* the transfer and transfers exactly the balance held before; with a zero
\* balance it fails with NoBalanceToWithdraw, transfers nothing and changes
\* no state; a zeroed balance grows again only by the credit of a purchase,
\* so a second call in sequence fails; the total transferred to a seller
\* never exceeds its lifetime earnings, nested calls of the token included.
C5_WithdrawOnce ==
    [][/\ SellerLedger /\ SellerLedger'
       /\ \A caller \in Accounts :
            /\ (pc = "idle" /\ SellerWithdrawalCalled
                  /\ withdrawSellerBalance(caller)) =>
                 IF sellers[caller].balance = 0
                 THEN /\ lastResult'.err = "NoBalanceToWithdraw"
                      /\ UNCHANGED <<storage, token, history, pc>>
                 ELSE /\ pc' = "withdrawSeller"
                      /\ sellers'[caller].balance = 0
                      /\ frame'.caller = caller
                      /\ frame'.amount = sellers[caller].balance
                      /\ UNCHANGED <<token, history>>
            /\ (pc # "idle" /\ SellerWithdrawalCalled
                  /\ nestedWithdrawSellerBalance(caller)) =>
                 IF lastResult'.err = "ok"
                 THEN /\ sellers[caller].balance > 0
                      /\ sellers'[caller].balance = 0
                      /\ balanceOf'[caller] =
                             balanceOf[caller] + sellers[caller].balance
                 ELSE UNCHANGED <<storage, token, history>>
            /\ sellers'[caller].balance > sellers[caller].balance =>
                 \/ \E buyer \in Accounts, id \in ProductIds :
                        /\ PurchaseApplied(buyer, id)
                        /\ products[id].seller = caller
                 \/ pc # "idle" /\ pc' = "idle" /\ lastResult'.err # "ok"
       /\ SellerTransferred =>
            /\ balanceOf'[frame.caller] = balanceOf[frame.caller] + frame.amount
            /\ balanceOf'[Mart] = balanceOf[Mart] - frame.amount
            /\ sellerPaid'[frame.caller] = sellerPaid[frame.caller] + frame.amount
            /\ UNCHANGED sellers]_vars

\* C5 witness: a seller has been paid all it earned, no account has a balance
\* left, and the withdrawal called next failed with NoBalanceToWithdraw.
C5_Witness ==
    /\ pc = "idle"
    /\ lastResult = Result("withdrawSellerBalance", "NoBalanceToWithdraw",
                           FALSE)
    /\ \A a \in Accounts : sellers[a].balance = 0
    /\ \E a \in Accounts :
           /\ sellerPaid[a] > 0
           /\ sellerPaid[a] = sellers[a].totalEarnings
           /\ balanceOf[a] >= InitialBalance + sellerPaid[a]

\* ------------------------------------------------------------------ C6
\* A receipt is cleared only by the revert of the transaction that wrote it.
ReceiptsKept ==
    \A b \in Accounts, p \in ProductIds :
        (hasPurchased[b][p] /\ ~hasPurchased'[b][p]) =>
            /\ pc # "idle" /\ pc' = "idle" /\ lastResult'.err # "ok"
            /\ ~saved.hasPurchased[b][p]

\* C6 as stated: once buyer b holds the receipt of product p, every later
\* purchaseProduct(p) by b fails with ProductAlreadyPurchased and leaves all
\* state unchanged.
C6_AlwaysAlreadyPurchased ==
    [][\A b \in Accounts, p \in ProductIds :
          (pc = "idle" /\ hasPurchased[b][p] /\ purchaseProduct(b, p)) =>
              /\ lastResult'.err = "ProductAlreadyPurchased"
              /\ UNCHANGED <<storage, token, history, pc, frame>>]_vars

\* C6 amended: once buyer b holds the receipt of product p, every later
\* purchaseProduct(p) by b fails and leaves all state unchanged (no credit, no
\* counter change, no transfer); the error is ProductAlreadyPurchased when the
\* product is active and ProductNotActive when it was deactivated since, and
\* a call nested in a transfer that holds the lock fails with
\* ReentrancyGuardReentrantCall; the receipt itself is never cleared.
C6_SecondPurchaseFails ==
    [][/\ ReceiptsKept
       /\ \A b \in Accounts, p \in ProductIds :
            hasPurchased[b][p] =>
              /\ (pc = "idle" /\ PurchaseCalled /\ purchaseProduct(b, p)) =>
                   /\ lastResult'.err =
                          IF products[p].active THEN "ProductAlreadyPurchased"
                          ELSE "ProductNotActive"
                   /\ UNCHANGED <<storage, token, history, pc, frame>>
              /\ (pc # "idle" /\ PurchaseCalled
                    /\ nestedPurchaseProduct(b, p)) =>
                   /\ lastResult'.err =
                          IF locked THEN "ReentrancyGuardReentrantCall"
                          ELSE IF products[p].active
                          THEN "ProductAlreadyPurchased"
                          ELSE "ProductNotActive"
                   /\ UNCHANGED <<storage, token, history, pc, frame>>]_vars

\* C6 witness: after one completed purchase, the buyer's second purchase of
\* the same product was rejected with ProductAlreadyPurchased; the product
\* was sold and paid once.
C6_Witness ==
    /\ pc = "idle"
    /\ lastResult = Result("purchaseProduct", "ProductAlreadyPurchased", FALSE)
    /\ \E b \in Accounts, p \in ProductIds :
           /\ hasPurchased[b][p]
           /\ products[p].active
           /\ products[p].salesCount = 1
           /\ paidIn = products[p].price
           /\ balanceOf[Mart] = products[p].price

\* ------------------------------------------------------------------ C7
\* The preconditions of purchaseProduct(id) by caller, each on its own.
Exists(id) == id # 0 /\ id <= productCounter

IsActive(id) == Exists(id) /\ products[id].active

IsSeller(caller, id) == Exists(id) /\ products[id].seller = caller

HasReceipt(caller, id) == Exists(id) /\ hasPurchased[caller][id]

\* C7: purchaseProduct reports ProductDoesNotExist when the product does not
\* exist, whatever else fails; else ProductNotActive when it is inactive,
\* whatever else fails; else CannotBuyOwnProduct when the caller is the
\* seller; else ProductAlreadyPurchased when the caller holds the receipt;
\* and it goes on to the transfer only when all four checks pass.
C7_CheckOrder ==
    [][\A caller \in Accounts, id \in IdInputs :
          (pc = "idle" /\ PurchaseCalled /\ purchaseProduct(caller, id)) =>
              /\ ~Exists(id) => lastResult'.err = "ProductDoesNotExist"
              /\ (Exists(id) /\ ~IsActive(id)) =>
                     lastResult'.err = "ProductNotActive"
              /\ (IsActive(id) /\ IsSeller(caller, id)) =>
                     lastResult'.err = "CannotBuyOwnProduct"
              /\ (IsActive(id) /\ ~IsSeller(caller, id)
                         /\ HasReceipt(caller, id)) =>
                     lastResult'.err = "ProductAlreadyPurchased"
              /\ (IsActive(id) /\ ~IsSeller(caller, id)
                         /\ ~HasReceipt(caller, id)) <=> pc' = "purchase"
              /\ pc' = "idle" =>
                     /\ lastResult'.op = "purchaseProduct"
                     /\ lastResult'.err # "ok"]_vars

\* C7 witness: the only product is inactive and every account is its seller
\* or holds its receipt, so the purchase that was just rejected failed two
\* checks, and ProductNotActive, the earlier one, was reported.
C7_Witness ==
    /\ pc = "idle"
    /\ lastResult = Result("purchaseProduct", "ProductNotActive", FALSE)
    /\ productCounter = 1
    /\ ~products[1].active
    /\ \A a \in Accounts : products[1].seller = a \/ hasPurchased[a][1]

\* ------------------------------------------------------------------ C8
\* No account holds the receipt of a product it sells.
NoOwnReceipt ==
    \A a \in Accounts, p \in ProductIds :
        products[p].seller = a => ~hasPurchased[a][p]

\* C8: a purchaseProduct call by the seller of the product is rejected and
\* changes no state, whether the product is active or not, whatever its
\* price, and whether the call is a transaction's own or nested in a
\* transfer; no account ever holds the receipt of a product it sells.
C8_NoSelfPurchase ==
    [][/\ NoOwnReceipt /\ NoOwnReceipt'
       /\ \A caller \in Accounts, id \in ProductIds :
            products[id].seller = caller =>
              /\ (pc = "idle" /\ PurchaseCalled
                    /\ purchaseProduct(caller, id)) =>
                   /\ lastResult'.err \in
                          {"CannotBuyOwnProduct", "ProductNotActive"}
                   /\ products[id].active =>
                          lastResult'.err = "CannotBuyOwnProduct"
                   /\ UNCHANGED <<storage, token, history, pc, frame>>
              /\ (pc # "idle" /\ PurchaseCalled
                    /\ nestedPurchaseProduct(caller, id)) =>
                   /\ lastResult'.err # "ok"
                   /\ UNCHANGED <<storage, token, history, pc, frame>>]_vars

\* C8 witness: a seller's purchase of its own product, which others have
\* bought, was rejected with CannotBuyOwnProduct, and the seller holds no
\* receipt for it.
C8_Witness ==
    /\ pc = "idle"
    /\ lastResult = Result("purchaseProduct", "CannotBuyOwnProduct", FALSE)
    /\ \E p \in ProductIds :
           /\ products[p].active
           /\ products[p].salesCount > 0
           /\ products[p].seller \in Accounts
           /\ ~hasPurchased[products[p].seller][p]

\* ------------------------------------------------------------------ C9
\* The step in which the call whose transfer was in flight fails.
TransferFailed == pc # "idle" /\ pc' = "idle" /\ lastResult'.err # "ok"

\* The state after the step is the state before the call in flight began.
RolledBack ==
    /\ platformBalance' = saved.platformBalance
    /\ productCounter' = saved.productCounter
    /\ products' = saved.products
    /\ sellers' = saved.sellers
    /\ hasPurchased' = saved.hasPurchased
    /\ balanceOf' = saved.balanceOf
    /\ allowance' = saved.allowance
    /\ paidIn' = saved.paidIn
    /\ sellerPaid' = saved.sellerPaid
    /\ platformPaid' = saved.platformPaid
    /\ ~locked'

\* The step of a call that fails one of its own checks.
CheckFailed ==
    /\ pc' = pc
    /\ lastResult'.err # "ok"
    /\ lastResult' # lastResult

\* The step of a call accepted while another call's bookkeeping is written
\* and its transfer has not returned.
AcceptedInFlight == pc # "idle" /\ pc' = pc /\ lastResult'.err = "ok"

\* C9: every state-mutating operation is all-or-nothing: a call that fails,
\* at a check or at its token transfer, leaves the state as it was before
\* the call, and no call is ever served in a state where another operation
\* is partially applied.
C9_AllOrNothing ==
    [][/\ CheckFailed => UNCHANGED <<storage, token, history>>
       /\ TransferFailed => RolledBack
       /\ ~AcceptedInFlight]_vars

\* The parts of C9 that hold: failing calls leave no trace.
C9_FailuresLeaveNoTrace ==
    [][/\ CheckFailed => UNCHANGED <<storage, token, history>>
       /\ TransferFailed => RolledBack]_vars

\* A seller's price update served from inside the transfer of a purchase of
\* that very product.
C9_PriceUpdatedInFlight ==
    /\ pc = "purchase"
    /\ lastResult = Result("updateProductPrice", "ok", TRUE)
    /\ products[frame.productId].price # frame.amount

\* ------------------------------------------------------------------ C10
\* What account a has paid for purchases (the allowance it has used up).
Spent(a) == InitialAllowance[a] - allowance[a]

TotalSales == SumOver([a \in Accounts |-> sellers[a].totalSales], Accounts)

\* C10: with a token that neither calls back nor refuses, the custody
\* account holds exactly the sellers' withdrawable balances plus
\* platformBalance (the transfer in flight apart); every withdrawal with a
\* positive balance can be paid; every account holds what it started with,
\* less what it paid, plus what it withdrew; and after one purchase, the
\* platform withdrawal and the seller withdrawal both accumulators are zero,
\* the owner has received exactly fee and the seller exactly price - fee.
C10_Custody ==
    /\ balanceOf[Mart] + PendingIn - PendingOut
           = SellerBalances + platformBalance
    /\ pc = "idle" => /\ platformBalance <= balanceOf[Mart]
                      /\ \A a \in Accounts :
                             sellers[a].balance <= balanceOf[Mart]
    /\ pc \in {"withdrawSeller", "withdrawPlatform"} =>
           frame.amount > 0 /\ CanTransfer(frame.amount)
    /\ \A a \in Accounts :
           balanceOf[a] = InitialBalance - Spent(a) + sellerPaid[a]
                              + (IF a = Martowner THEN platformPaid ELSE 0)
    /\ \A s \in Accounts :
           (pc = "idle" /\ TotalSales = 1 /\ platformPaid > 0
                   /\ sellerPaid[s] > 0) =>
               LET fee == (paidIn * platformFeePercentage) \div 10000
               IN  /\ platformBalance = 0
                   /\ sellers[s].balance = 0
                   /\ platformPaid = fee
                   /\ sellerPaid[s] = paidIn - fee
                   /\ balanceOf[Mart] = 0
                   /\ balanceOf[Martowner] =
                          InitialBalance - Spent(Martowner) + fee
                   /\ s # Martowner =>
                          balanceOf[s] = InitialBalance - Spent(s)
                                             + paidIn - fee

\* C10 witness: one purchase at price 50 and fee rate 500, then both
\* withdrawals: the accumulators and the custody account are empty, the
\* owner has received 2 and the seller 48.
C10_Witness ==
    /\ pc = "idle"
    /\ TotalSales = 1
    /\ paidIn = 50
    /\ platformFeePercentage = TestFeeBps
    /\ platformPaid = 2
    /\ platformBalance = 0
    /\ SellerBalances = 0
    /\ balanceOf[Mart] = 0
    /\ balanceOf[Martowner] = InitialBalance + 2
    /\ \E s \in Accounts :
           /\ sellerPaid[s] = 48
           /\ balanceOf[s] = InitialBalance + 48

\* ------------------------------------------------------------------ C11
\* The step of a served deactivateProduct / activateProduct of product id.
Deactivated(caller, id) ==
    /\ lastResult' = Result("deactivateProduct", "ok", pc # "idle")
    /\ deactivateProduct(caller, id)

Activated(caller, id) ==
    /\ lastResult' = Result("activateProduct", "ok", pc # "idle")
    /\ activateProduct(caller, id)

\* A purchase of product id by caller would pass the seller and receipt
\* checks.
Eligible(caller, id) == ~IsSeller(caller, id) /\ ~HasReceipt(caller, id)

\* The calls C11 speaks of: a step of one of them requests the transfer of a
\* purchase or leaves the result of one of these calls.
C11_Ops == {"purchaseProduct", "deactivateProduct", "activateProduct"}

\* C11: while a product is deactivated, purchaseProduct on it by a
\* non-seller without a receipt fails with ProductNotActive and changes
\* nothing; once the seller has reactivated it, such a purchase passes its
\* checks again; deactivation and reactivation change the active flag of the
\* product alone: sales counters, balances, lifetime earnings and receipts
\* stay as they were.
C11_ActivationGatesPurchase ==
    [][(pc' = "purchase" \/ lastResult'.op \in C11_Ops) =>
       \A caller \in Accounts, id \in ProductIds :
         /\ (pc = "idle" /\ Exists(id) /\ ~IsActive(id)
                 /\ Eligible(caller, id) /\ purchaseProduct(caller, id)) =>
                /\ lastResult'.err = "ProductNotActive"
                /\ UNCHANGED <<storage, token, history, pc, frame>>
         /\ (pc = "idle" /\ IsActive(id) /\ Eligible(caller, id)
                 /\ purchaseProduct(caller, id)) =>
                /\ pc' = "purchase"
                /\ hasPurchased'[caller][id]
         /\ Deactivated(caller, id) =>
                /\ IsSeller(caller, id) /\ IsActive(id)
                /\ ~products'[id].active
                /\ products' = [products EXCEPT ![id].active = FALSE]
                /\ UNCHANGED <<productCounter, platformBalance, sellers,
                               hasPurchased, token, history>>
         /\ Activated(caller, id) =>
                /\ IsSeller(caller, id) /\ ~IsActive(id)
                /\ products'[id].active
                /\ products' = [products EXCEPT ![id].active = TRUE]
                /\ UNCHANGED <<productCounter, platformBalance, sellers,
                               hasPurchased, token, history>>
                /\ \A buyer \in Accounts :
                       (Eligible(buyer, id) /\ ~locked) =>
                           PurchaseCheck(buyer, id)' = "ok"]_vars

\* C11 witness: a product was deactivated and reactivated (the event of the
\* reactivation is the last one emitted), and a purchase of it has passed
\* its checks and requested its transfer.
C11_Witness ==
    /\ pc = "purchase"
    /\ lastEvent.name = "ProductActivated"
    /\ lastEvent.productId = frame.productId
    /\ products[frame.productId].active
    /\ products[frame.productId].salesCount = 1
    /\ hasPurchased[frame.caller][frame.productId]

\* ------------------------------------------------------------------ C12
\* The receipt of buyer b for product p as the last completed transaction
\* left it: a transaction whose transfer is in flight has not completed.
Committed(b, p) ==
    IF pc = "idle" THEN hasPurchased[b][p] ELSE saved.hasPurchased[b][p]

\* C12: a receipt left by a completed purchase is there in every later
\* state, whatever is called; a receipt is set only by a purchaseProduct of
\* that product by that buyer which passed its checks; and a receipt goes
\* away only when the purchase that wrote it is reverted with its
\* transaction, so that it never succeeded.
C12_ReceiptsWriteOnce ==
    [][\A b \in Accounts, p \in ProductIds :
         /\ Committed(b, p) => Committed(b, p)' /\ hasPurchased'[b][p]
         /\ (~hasPurchased[b][p] /\ hasPurchased'[b][p]) =>
                PurchaseApplied(b, p)
         /\ (hasPurchased[b][p] /\ ~hasPurchased'[b][p]) =>
                /\ TransferFailed
                /\ ~saved.hasPurchased[b][p]]_vars

\* C12 witness: the receipt of a purchase is still set after the seller
\* withdrew the proceeds and deactivated the product.
C12_Witness ==
    /\ pc = "idle"
    /\ \E b \in Accounts, p \in ProductIds :
           /\ hasPurchased[b][p]
           /\ ~products[p].active
           /\ sellerPaid[products[p].seller] > 0
           /\ sellers[products[p].seller].balance = 0

\* ------------------------------------------------------------------ C13
BalanceWithinEarnings ==
    \A a \in Accounts :
        /\ sellers[a].balance >= 0
        /\ sellers[a].balance <= sellers[a].totalEarnings

\* The lifetime earnings of account a as the last completed transaction left
\* them.
CommittedEarnings(a) ==
    IF pc = "idle" THEN sellers[a].totalEarnings
    ELSE saved.sellers[a].totalEarnings

\* The step of a seller withdrawal that passed its checks.
SellerWithdrawn(caller) ==
    \/ pc = "idle" /\ pc' = "withdrawSeller" /\ withdrawSellerBalance(caller)
    \/ /\ pc # "idle" /\ lastResult'.err = "ok"
       /\ nestedWithdrawSellerBalance(caller)

\* C13: in every state each seller's withdrawable balance is at most its
\* lifetime earnings; lifetime earnings never decrease from one completed
\* transaction to the next (within a transaction they go back only when the
\* transaction reverts); a withdrawal lowers the caller's balance and
\* leaves lifetime earnings, sales count and product list as they were.
C13_BalanceWithinEarnings ==
    [][/\ BalanceWithinEarnings /\ BalanceWithinEarnings'
       /\ \A a \in Accounts :
            /\ CommittedEarnings(a)' >= CommittedEarnings(a)
            /\ sellers'[a].totalEarnings < sellers[a].totalEarnings =>
                   /\ TransferFailed
                   /\ sellers'[a].totalEarnings =
                          saved.sellers[a].totalEarnings
            /\ SellerWithdrawn(a) =>
                   /\ sellers'[a].balance < sellers[a].balance
                   /\ sellers' = [sellers EXCEPT ![a].balance = 0]
       /\ (SellerTransferred \/ (pc = "withdrawPlatform"
                                   /\ WithdrawPlatformReturn)
             \/ \E caller \in Accounts :
                    pc = "idle" /\ withdrawPlatformFees(caller)) =>
            \A a \in Accounts :
                sellers'[a].totalEarnings = sellers[a].totalEarnings]_vars

\* C13 witness: a seller sold twice and withdrew in between: its balance is
\* positive and below its lifetime earnings.
C13_Witness ==
    /\ pc = "idle"
    /\ \E a \in Accounts :
           /\ sellers[a].totalSales = 2
           /\ sellerPaid[a] > 0
           /\ sellers[a].balance > 0
           /\ sellers[a].balance < sellers[a].totalEarnings

\* ------------------------------------------------------------------ C14
\* The step in which the transfer of a platform withdrawal returns
\* successfully.
PlatformTransferred ==
    pc = "withdrawPlatform" /\ lastResult'.err = "ok" /\ WithdrawPlatformReturn

\* A withdrawPlatformFees call of a transaction's own, whatever its outcome.
PlatformWithdrawalCalled(caller) ==
    /\ pc = "idle"
    /\ pc' = "withdrawPlatform" \/ lastResult'.op = "withdrawPlatformFees"
    /\ withdrawPlatformFees(caller)

\* C14: withdrawPlatformFees succeeds only for the configured platform
\* owner (Martowner, set by the constructor): a call by any other account
\* fails with a not-owner error (Mart_NotOwner, or Ownable's
\* OwnableUnauthorizedAccount) and changes no state; a call that succeeds
\* has set platformBalance to zero when it requests the transfer, and
\* transfers exactly the previous platformBalance to the owner.
C14_OwnerOnlyWithdrawal ==
    [][/\ \A caller \in Accounts :
            PlatformWithdrawalCalled(caller) =>
                IF caller # Martowner
                THEN /\ lastResult'.err \in {"Mart_NotOwner",
                                           "OwnableUnauthorizedAccount"}
                     /\ UNCHANGED <<storage, token, history, pc, frame>>
                ELSE platformBalance > 0 =>
                         /\ pc' = "withdrawPlatform"
                         /\ platformBalance' = 0
                         /\ frame'.amount = platformBalance
                         /\ UNCHANGED <<token, history>>
       /\ PlatformTransferred =>
            /\ frame.caller = Martowner
            /\ balanceOf'[frame.caller] = balanceOf[frame.caller] + frame.amount
            /\ balanceOf'[Mart] = balanceOf[Mart] - frame.amount]_vars

\* What the code does instead: the caller is checked against Ownable's
\* owner and rejected with OwnableUnauthorizedAccount, and the amount goes
\* to Martowner whoever called.
C14_OwnableOwnerOnly ==
    [][/\ \A caller \in Accounts :
            PlatformWithdrawalCalled(caller) =>
                IF caller # owner
                THEN /\ lastResult'.err = "OwnableUnauthorizedAccount"
                     /\ UNCHANGED <<storage, token, history, pc, frame>>
                ELSE platformBalance > 0 =>
                         /\ pc' = "withdrawPlatform"
                         /\ platformBalance' = 0
                         /\ frame'.amount = platformBalance
                         /\ UNCHANGED <<token, history>>
       /\ PlatformTransferred =>
            /\ balanceOf'[Martowner] = balanceOf[Martowner] + frame.amount
            /\ balanceOf'[Mart] = balanceOf[Mart] - frame.amount]_vars

\* C14 in the code: after transferOwnership an account other than Martowner
\* has passed the access check of withdrawPlatformFees, and the transfer of
\* the fees to Martowner is in flight.
C14_Witness ==
    /\ pc = "withdrawPlatform"
    /\ frame.caller # Martowner
    /\ frame.caller = owner
    /\ frame.amount > 0
    /\ platformBalance = 0

\* ------------------------------------------------------------------ C15
\* C15: withdrawPlatformFees called by the owner while platformBalance is
\* zero fails with the structured error NoPlatformFeesToWithdraw, makes no
\* transfer and leaves the state unchanged.
C15_NoFeesError ==
    [][(platformBalance = 0 /\ PlatformWithdrawalCalled(owner)) =>
           /\ lastResult'.err = "NoPlatformFeesToWithdraw"
           /\ UNCHANGED <<storage, token, history, pc, frame>>]_vars

\* What the code does: the call reverts with the string of the require of
\* line 605, and changes nothing.
C15_NoFeesRequireString ==
    [][(platformBalance = 0 /\ PlatformWithdrawalCalled(owner)) =>
           /\ lastResult'.err = "No platform fees to withdraw"
           /\ UNCHANGED <<storage, token, history, pc, frame>>]_vars

\* C15 in the code: the owner's withdrawal with an empty accumulator has
\* reverted with the require string.
C15_Witness ==
    /\ pc = "idle"
    /\ platformBalance = 0
    /\ lastResult = Result("withdrawPlatformFees",
                           "No platform fees to withdraw", FALSE)

\* ------------------------------------------------------------------ C16
\* C16: listProduct fails with EmptyCID when the content id is empty, else
\* with InvalidPrice when the price is 0, else with EmptyName when the name
\* is empty, and then changes no state; otherwise it returns and emits
\* productCounter + 1, increments productCounter by one, stores under that
\* id a record with seller = caller, the given content id, price and name,
\* active = true and salesCount = 0, and appends the id to the caller's
\* product list; every other product, every receipt and every balance stays
\* as it was.
C16_ListProduct ==
    [][(pc = "idle" /\ lastResult'.op = "listProduct") =>
         \A caller \in Accounts, cid \in CidInputs,
            price \in ListPriceInputs, name \in NameInputs :
             listProduct(caller, cid, price, name) =>
                 IF cid = "" \/ price = 0 \/ name = ""
                 THEN /\ lastResult'.err =
                             IF cid = "" THEN "EmptyCID"
                             ELSE IF price = 0 THEN "InvalidPrice"
                             ELSE "EmptyName"
                      /\ UNCHANGED <<storage, token, history, pc, frame,
                                     lastEvent>>
                 ELSE LET newId == productCounter + 1
                      IN  /\ lastResult'.err = "ok"
                          /\ productCounter' = newId
                          /\ lastEvent' =
                                 [Event("ProductListed", newId, caller,
                                        caller, price, 0) EXCEPT !.cid = cid]
                          /\ products'[newId] =
                                 [id |-> newId, seller |-> caller,
                                  cid |-> cid, price |-> price,
                                  name |-> name, active |-> TRUE,
                                  salesCount |-> 0]
                          /\ \A p \in ProductIds \ {newId} :
                                 products'[p] = products[p]
                          /\ sellers'[caller].productIds =
                                 Append(sellers[caller].productIds, newId)
                          /\ sellers' = [sellers EXCEPT ![caller].productIds
                                            = sellers'[caller].productIds]
                          /\ UNCHANGED <<owner, Martowner,
                                         platformFeePercentage,
                                         platformBalance, hasPurchased,
                                         locked, token, history>>]_vars

\* C16 witness: a second product was listed after the first was sold; it
\* has id 2 and no sales, and the first product's sale and receipt are as
\* they were.
C16_Witness ==
    /\ pc = "idle"
    /\ lastResult = Result("listProduct", "ok", FALSE)
    /\ productCounter = 2
    /\ products[2].id = 2 /\ products[2].active /\ products[2].salesCount = 0
    /\ sellers[products[2].seller].productIds # <<>>
    /\ products[1].salesCount = 1
    /\ \E b \in Accounts : hasPurchased[b][1] /\ ~hasPurchased[b][2]

\* ------------------------------------------------------------------ C17
\* Nothing but the active flag of product id changes, and it becomes flag.
OnlyActiveFlag(id, flag) ==
    /\ products' = [products EXCEPT ![id].active = flag]
    /\ UNCHANGED <<owner, Martowner, platformFeePercentage, productCounter,
                   platformBalance, sellers, hasPurchased, locked, token,
                   history, pc, frame>>

\* C17: deactivateProduct and activateProduct fail with NotProductSeller for
\* every caller that is not the product's seller, also for a product id
\* that does not exist; called by the seller, deactivateProduct fails with
\* ProductAlreadyInactive on an inactive product and activateProduct with
\* ProductAlreadyActive on an active one; a failed call changes nothing and
\* a successful call changes the active flag of that one product and
\* nothing else.
C17_SellerOnlyActivation ==
    [][/\ (pc = "idle" /\ lastResult'.op = "deactivateProduct") =>
            \A caller \in Accounts, id \in IdInputs :
                deactivateProduct(caller, id) =>
                    IF ~IsSeller(caller, id)
                    THEN /\ lastResult'.err = "NotProductSeller"
                         /\ UNCHANGED <<storage, token, history, pc, frame>>
                    ELSE IF ~products[id].active
                    THEN /\ lastResult'.err = "ProductAlreadyInactive"
                         /\ UNCHANGED <<storage, token, history, pc, frame>>
                    ELSE /\ lastResult'.err = "ok"
                         /\ OnlyActiveFlag(id, FALSE)
       /\ (pc = "idle" /\ lastResult'.op = "activateProduct") =>
            \A caller \in Accounts, id \in IdInputs :
                activateProduct(caller, id) =>
                    IF ~IsSeller(caller, id)
                    THEN /\ lastResult'.err = "NotProductSeller"
                         /\ UNCHANGED <<storage, token, history, pc, frame>>
                    ELSE IF products[id].active
                    THEN /\ lastResult'.err = "ProductAlreadyActive"
                         /\ UNCHANGED <<storage, token, history, pc, frame>>
                    ELSE /\ lastResult'.err = "ok"
                         /\ OnlyActiveFlag(id, TRUE)]_vars

\* C17 witness: a product that was sold and then deactivated by its seller
\* is inactive, and the deactivation called again failed with
\* ProductAlreadyInactive.
C17_Witness ==
    /\ pc = "idle"
    /\ lastResult = Result("deactivateProduct", "ProductAlreadyInactive",
                           FALSE)
    /\ lastEvent.name = "ProductDeactivated"
    /\ ~products[lastEvent.productId].active
    /\ products[lastEvent.productId].salesCount = 1

\* ------------------------------------------------------------------ C18
\* The step of some updateProductPrice call.
PriceUpdateCalled ==
    \E caller \in Accounts, id \in IdInputs, newPrice \in UpdatePriceInputs :
        updateProductPrice(caller, id, newPrice)

\* C18: updateProductPrice fails with NotProductSeller for every caller but
\* the product's seller, and for the seller with InvalidPrice when the new
\* price is 0; a failed call changes nothing; a successful call changes the
\* price of that one product and nothing else (receipts, balances, lifetime
\* earnings, platformBalance and sales counters stay as credited), and a
\* purchase requested afterwards is charged and split at the price the
\* product has then.
C18_PriceUpdate ==
    [][/\ (pc = "idle" /\ lastResult'.op = "updateProductPrice") =>
            /\ \A caller \in Accounts, id \in IdInputs,
                  newPrice \in UpdatePriceInputs :
                   IF lastResult'.err = "ok"
                   THEN updateProductPrice(caller, id, newPrice) =>
                            /\ IsSeller(caller, id)
                            /\ newPrice # 0
                            /\ products' = [products EXCEPT
                                               ![id].price = newPrice]
                   ELSE lastResult'.err
                            = UpdatePriceCheck(caller, id, newPrice) =>
                            IF ~IsSeller(caller, id)
                            THEN lastResult'.err = "NotProductSeller"
                            ELSE /\ newPrice = 0
                                 /\ lastResult'.err = "InvalidPrice"
            /\ PriceUpdateCalled =>
                   IF lastResult'.err = "ok"
                   THEN UNCHANGED <<owner, Martowner, platformFeePercentage,
                                    productCounter, platformBalance,
                                    sellers, hasPurchased, locked,
                                    token, history, pc, frame>>
                   ELSE UNCHANGED <<storage, token, history, pc, frame>>
       /\ (pc = "idle" /\ pc' = "purchase") =>
            \A caller \in Accounts, id \in ProductIds :
                purchaseProduct(caller, id) =>
                    LET price == products[id].price
                        fee == (price * platformFeePercentage) \div 10000
                        seller == products[id].seller
                    IN  /\ frame'.amount = price
                        /\ platformBalance' = platformBalance + fee
                        /\ sellers'[seller].balance =
                               sellers[seller].balance + price - fee
                        /\ sellers'[seller].totalEarnings =
                               sellers[seller].totalEarnings + price - fee
                        /\ products'[id].price = price]_vars

\* C18 witness: a product sold at 50 had its price changed to 7 and was
\* sold again: 57 were paid in all, the credits of the first sale (48 and
\* 2) are intact and the second sale added 7 and no fee.
C18_Witness ==
    /\ pc = "idle"
    /\ platformFeePercentage = TestFeeBps
    /\ paidIn = 57
    /\ platformBalance = 2
    /\ \E p \in ProductIds :
           /\ products[p].price = 7
           /\ products[p].salesCount = 2
           /\ sellers[products[p].seller].totalEarnings = 55
           /\ sellers[products[p].seller].balance = 55
           /\ \E b1, b2 \in Accounts :
                  b1 # b2 /\ hasPurchased[b1][p] /\ hasPurchased[b2][p]

C21_FeeUpdate ==
    [][(pc = "idle" /\ lastResult'.op = "updatePlatformFee") =>
         \A caller \in Accounts, newFee \in FeeUpdateInputs :
             updatePlatformFee(caller, newFee) =>
                 IF caller # Martowner
                 THEN /\ lastResult'.err # "ok"
                      /\ UNCHANGED <<storage, token, history>>
                 ELSE IF newFee > 2000
                 THEN /\ lastResult'.err = "Fee too high (max 20%)"
                      /\ UNCHANGED <<storage, token, history>>
                 ELSE /\ lastResult'.err = "ok"
                      /\ platformFeePercentage' = newFee]_vars

\* What the code does instead: no step changes the fee rate the constructor
\* set, and every updatePlatformFee call fails.
C21_FeeRateFixed ==
    [][/\ platformFeePercentage' = platformFeePercentage
       /\ lastResult'.op = "updatePlatformFee" => lastResult'.err # "ok"]_vars

\* C21 in the code: the platform owner's updatePlatformFee(1000) of the
\* tests has failed and the rate is still the one of the constructor.
C21_Witness ==
    /\ lastResult = Result("updatePlatformFee", "UnknownSelector", FALSE)
    /\ platformFeePercentage = TestFeeBps
    /\ productCounter = 1

\* ------------------------------------------------------------------ C22
\* The decrypt flow of the page leaves idle in this step, for a visitor who
\* is not the seller of the product.
BuyerStartsDecrypt ==
    /\ client.decryptState = "idle"
    /\ client'.decryptState # "idle"
    /\ ~isSeller

\* The receipt of the connected account for the product of the page, as the
\* ledger has committed it.
ReceiptCommitted ==
    IF pc = "idle" THEN hasPurchased[client.address][PageProductId]
    ELSE saved.hasPurchased[client.address][PageProductId]

\* C22 as stated: the decrypt flow of a buyer leaves idle only after the
\* purchase flow of the page has reached success, and never while the
\* purchase flow is in approving, waiting_approval, purchasing or
\* waiting_purchase.
C22_DecryptAfterFlowSuccess ==
    [][BuyerStartsDecrypt =>
          /\ txs.reachedSuccess
          /\ client.state \notin {"approving", "waiting_approval",
                                  "purchasing", "waiting_purchase"}]_vars

\* C22 amended: the decrypt flow of a buyer leaves idle only after the page
\* has read the buyer's receipt from the ledger, that is after a purchase of
\* the product by that account is final on the ledger; it is never started
\* before the receipt is committed.
C22_DecryptAfterReceipt ==
    [][BuyerStartsDecrypt =>
          /\ client.hasPurchased = "true"
          /\ ReceiptCommitted]_vars

\* C22 witness: a buyer whose purchase flow on this page never left idle
\* has decrypted and downloaded the file.
C22_Witness ==
    /\ client.decryptState = "success"
    /\ client.downloads = 1
    /\ ~isSeller
    /\ client.state = "idle"
    /\ ~txs.reachedSuccess
    /\ hasPurchased[client.address][PageProductId]

\* ------------------------------------------------------------------ C23
\* Whom the predicate of a listed product is to authorize: its seller,
\* receipt or not, and every other account exactly when it holds the receipt.
Entitled(user, id) ==
    \/ user = products[id].seller
    \/ hasUserPurchased(user, id)

Listed == {id \in ProductIds : Exists(id)}

\* C23: the access predicate bound to a product, whichever builder of the
\* sources made it, authorizes the product's seller without a receipt and
\* with zero sales, and a buyer exactly when hasUserPurchased is true.
C23_OrComposed ==
    \A id \in Listed, user \in Accounts :
        /\ createUnifiedAccessControlConditions(user, id)
               <=> Entitled(user, id)
        /\ createEvmContractConditions(user, id) <=> Entitled(user, id)
        /\ createAccessControlConditions(user, id) <=> Entitled(user, id)

\* The builder of lit.ts lines 374-439 alone is composed that way.
C23_UnifiedOrComposed ==
    \A id \in Listed, user \in Accounts :
        createUnifiedAccessControlConditions(user, id) <=> Entitled(user, id)

\* C23 witness: alice has listed product 1, nobody has bought it; the
\* unified predicate authorizes her, the two others refuse her.
C23_Witness ==
    /\ Exists(1)
    /\ products[1].seller = "alice"
    /\ products[1].salesCount = 0
    /\ ~hasUserPurchased("alice", 1)
    /\ createUnifiedAccessControlConditions("alice", 1)
    /\ ~createEvmContractConditions("alice", 1)
    /\ ~createAccessControlConditions("alice", 1)

C25_PredictedIdAssigned ==
    client.listedId # 0 => client.listedId = client.nextProductId

\* C25 witness: the page predicted id 1, another seller's listing was mined
\* first, and the page's listing was assigned id 2.
C25_Witness ==
    /\ client.nextProductId = 1
    /\ client.listedId = 2
    /\ products[1].seller # client.address
    /\ products[2].seller = client.address

\* ------------------------------------------------------------------ C26
\* handleDecrypt ends in its catch in this step.
DecryptFails ==
    client.decryptState = "decrypting" /\ client'.decryptState = "error"

\* C26: a decrypt attempt that fails because the network of the nodes is
\* unreachable leaves the page in an outcome that tells it apart from a
\* refusal: no error state and cause of the page is the outcome of both.
C26_FailuresToldApart ==
    [][DecryptFails =>
          \A e1, e2 \in LitErrors :
              (client' = Caught(e1) /\ client' = Caught(e2)) =>
                  e1.kind = e2.kind]_vars

\* C26 witness: the seller of an unsold product, whose content is under the
\* conditions without a seller branch, asked to decrypt and the page shows
\* the error "Decryption failed": what it shows after a refusal by the
\* nodes and after a failure to reach them.
C26_Witness ==
    /\ isSeller
    /\ client.metadata = "evmContractConditions"
    /\ ~Authorizes(client.metadata, client.address, PageProductId)
    /\ client.decryptState = "error"
    /\ client = Caught(Thrown("NotAuthorized", FALSE))
    /\ client = Caught(Thrown("Network", FALSE))

\* ------------------------------------------------------------------ C27
\* The place of each state in the order of the purchase flow (PurchaseState,
\* types.ts lines 142-150).
FlowRank ==
    [idle |-> 0, checking_allowance |-> 1, approving |-> 2,
     waiting_approval |-> 3, purchasing |-> 4, waiting_purchase |-> 5,
     success |-> 6]

\* C27: the purchase flow changes its state only forwards in the order
\* idle, checking_allowance, approving, waiting_approval, purchasing,
\* waiting_purchase, success, or to error (or on from error, or back to
\* idle by reset); once the approval is observed confirmed in
\* waiting_approval it goes on to the purchase step; success is entered
\* from waiting_purchase only.
C27_FlowOrder ==
    [][client'.state # client.state =>
          /\ \/ client'.state = "error"
             \/ client.state = "error"
             \/ FlowRank[client'.state] > FlowRank[client.state]
             \/ Reset
          /\ (client.state = "waiting_approval" /\ approvalConfirmed) =>
                 client'.state \in {"purchasing", "error"}
          /\ client'.state = "success" =>
                 client.state = "waiting_purchase"]_vars

\* What the hook does keep of it: success is entered from waiting_purchase
\* only, with the purchase confirmed.
C27_SuccessFromWaitingPurchase ==
    [][(client'.state = "success" /\ client.state # "success") =>
          client.state = "waiting_purchase" /\ purchaseConfirmed]_vars

\* C27 witness: alice's approve of the price was mined and observed, and the
\* flow is back at idle with no purchase written.
C27_Witness ==
    /\ client.address = "alice"
    /\ client.state = "idle"
    /\ allowance["alice"] = flowPrice
    /\ flowPrice > 0
    /\ txs.approve = "none"
    /\ txs.purchase = "none"
    /\ ~txs.approvalFailed
    /\ ~hasPurchased["alice"][PageProductId]

\* ------------------------------------------------------------------ C28
\* The hook hands a purchase to the wallet in this step.
PurchaseSubmitted ==
    /\ txs'.purchase = "prompt"
    /\ client'.state = "purchasing"
    /\ txs.purchase # "prompt" \/ client.state # "purchasing"

NeverListed == {id \in IdInputs : ~Exists(id)}

\* The callers that are neither the seller of product id nor hold its
\* receipt.
Strangers(id) ==
    {caller \in Accounts :
        products[id].seller # caller /\ ~hasPurchased[caller][id]}

\* C29: a caller who is neither seller nor buyer of an existing product gets
\* from getProductCID, deactivateProduct, activateProduct and
\* updateProductPrice the outcome it gets for an id that was never listed.
C29_DenialHidesExistence ==
    \A id \in Listed, missing \in NeverListed :
        \A caller \in Strangers(id) :
            /\ getProductCID(caller, id) = getProductCID(caller, missing)
            /\ DeactivateCheck(caller, id) = DeactivateCheck(caller, missing)
            /\ ActivateCheck(caller, id) = ActivateCheck(caller, missing)
            /\ \A newPrice \in UpdatePriceInputs :
                   UpdatePriceCheck(caller, id, newPrice)
                       = UpdatePriceCheck(caller, missing, newPrice)

\* The three calls reserved to the seller do answer alike.
C29_SellerCallsHideExistence ==
    \A id \in Listed, missing \in NeverListed :
        \A caller \in Strangers(id) :
            /\ DeactivateCheck(caller, id) = "NotProductSeller"
            /\ DeactivateCheck(caller, missing) = "NotProductSeller"
            /\ ActivateCheck(caller, id) = "NotProductSeller"
            /\ ActivateCheck(caller, missing) = "NotProductSeller"
            /\ \A newPrice \in UpdatePriceInputs :
                   /\ UpdatePriceCheck(caller, id, newPrice)
                          = "NotProductSeller"
                   /\ UpdatePriceCheck(caller, missing, newPrice)
                          = "NotProductSeller"

\* C29 witness: alice has listed product 1 and bob has not bought it;
\* getProductCID answers bob AccessDenied for id 1 and ProductDoesNotExist
\* for id 2.
C29_Witness ==
    /\ productCounter = 1
    /\ products[1].seller = "alice"
    /\ "bob" \in Strangers(1)
    /\ getProductCID("bob", 1) = Reverted("AccessDenied")
    /\ getProductCID("bob", 2) = Reverted("ProductDoesNotExist")

\* ------------------------------------------------------------------ C30
\* The event that records a successful call of op.
EventOf(op) ==
    CASE op = "listProduct" -> "ProductListed"
      [] op = "purchaseProduct" -> "ProductPurchased"
      [] op = "withdrawSellerBalance" -> "SellerWithdrawal"
      [] op = "withdrawPlatformFees" -> "PlatformWithdrawal"
      [] op = "deactivateProduct" -> "ProductDeactivated"
      [] op = "activateProduct" -> "ProductActivated"
      [] op = "updateProductPrice" -> "ProductPriceUpdated"
      [] OTHER -> "OwnershipTransferred"

\* The step in which a call returns: at once (a call without a transfer, or
\* a call served inside a transfer), or when its transfer ends.
ReturnsAtOnce == pc' = pc
TransferEnds == pc # "idle" /\ pc' = "idle"
CallSucceeds ==
    \/ ReturnsAtOnce /\ calls' = calls + 1
    \/ TransferEnds /\ lastResult'.err = "ok"

\* What the token moved into (positive) or out of (negative) the custody
\* account in this step.
Charged == balanceOf'[Mart] - balanceOf[Mart]

\* The event at the end of the log matches the call that succeeded.
EventMatches(withPrice) ==
    LET e == lastEvent'
    IN  CASE e.name = "ProductListed" ->
               /\ e.productId = productCounter'
               /\ productCounter' = productCounter + 1
               /\ e.account = products'[e.productId].seller
               /\ e.cid = products'[e.productId].cid
               /\ e.amount = products'[e.productId].price
          [] e.name = "ProductPurchased" ->
               /\ e.productId \in ProductIds
               /\ hasPurchased'[e.account][e.productId]
               /\ e.seller = products'[e.productId].seller
               /\ withPrice => e.amount = Charged
               /\ IF TransferEnds
                  THEN /\ e.productId = frame.productId
                       /\ e.account = frame.caller
                       /\ e.platformFee = frame.platformFee
                  ELSE /\ ~hasPurchased[e.account][e.productId]
                       /\ e.platformFee = platformBalance' - platformBalance
          [] e.name = "SellerWithdrawal" ->
               /\ e.amount = -Charged
               /\ e.amount = balanceOf'[e.account] - balanceOf[e.account]
               /\ TransferEnds => e.account = frame.caller
          [] e.name = "PlatformWithdrawal" ->
               /\ e.account = Martowner
               /\ e.amount = -Charged
               /\ e.amount = balanceOf'[Martowner] - balanceOf[Martowner]
          [] e.name = "ProductDeactivated" ->
               \A caller \in Accounts, id \in IdInputs :
                   deactivateProduct(caller, id) =>
                       e.productId = id /\ ~products'[id].active
          [] e.name = "ProductActivated" ->
               \A caller \in Accounts, id \in IdInputs :
                   activateProduct(caller, id) =>
                       e.productId = id /\ products'[id].active
          [] e.name = "ProductPriceUpdated" ->
               \A caller \in Accounts, id \in IdInputs,
                  newPrice \in UpdatePriceInputs :
                   updateProductPrice(caller, id, newPrice) =>
                       /\ e.productId = id /\ e.amount = newPrice
                       /\ products'[id].price = newPrice
          [] OTHER -> e.name = "OwnershipTransferred"

\* One event per successful call, none per failed call, none before the
\* transfer of a call has ended.
EventsFollowCalls(withPrice) ==
    IF CallSucceeds
    THEN /\ lastEvent'.index = lastEvent.index + 1
         /\ lastEvent'.name = EventOf(lastResult'.op)
         /\ EventMatches(withPrice)
    ELSE IF TransferEnds THEN lastEvent' = saved.lastEvent
    ELSE lastEvent' = lastEvent

\* In a committed state the log holds as many ProductPurchased events for a
\* product as its sales counter says.
PurchasedEventsCounted ==
    pc = "idle" =>
        \A id \in ProductIds : lastEvent.purchased[id] = Product(id).salesCount

\* C30: every successful mutation appends exactly one matching event and
\* every failed call appends none; the purchased event carries the price and
\* the fee actually charged and credited, the withdrawal events the amount
\* actually transferred; and the number of purchased events of a product
\* equals its sales counter.
C30_OneMatchingEvent ==
    []PurchasedEventsCounted /\ [][EventsFollowCalls(TRUE)]_vars

\* C30 in the code: all of it but the price of the purchased event, which
\* is read from the product after the transfer and is not what was charged
\* when the seller's updateProductPrice was served during the transfer.
C30_OneEventPriceApart ==
    []PurchasedEventsCounted /\ [][EventsFollowCalls(FALSE)]_vars

\* C30 witness: a single purchase is over and the one purchased event in the
\* log reports a price other than the tokens paid in.
C30_Witness ==
    /\ pc = "idle"
    /\ lastEvent.name = "ProductPurchased"
    /\ SumOver(lastEvent.purchased, ProductIds) = 1
    /\ lastEvent.amount # paidIn

C31_SuccessOnlyOnReceipt ==
    [][(client.state # "success" /\ client'.state = "success") =>
           /\ client.state = "waiting_purchase"
           /\ txs.purchase = "success"
           /\ hasUserPurchased(client.address, PageProductId)]_vars

C31_RevertedKeepsWaiting ==
    /\ client.state = "waiting_purchase"
    /\ txs.purchase = "reverted"
    /\ ~hasUserPurchased(client.address, PageProductId)

\* ------------------------------------------------------------------ C32
InProgress == {"approving", "waiting_approval", "purchasing",
               "waiting_purchase"}

\* C32: every in-progress state of the purchase flow is eventually left,
\* also when the submitted transaction fails; the flow does not stay in a
\* waiting state forever.  (Reaching idle, success or error leaves the
\* state.)
C32_InProgressLeft ==
    \A st \in InProgress : (client.state = st) ~> (client.state # st)

\* C32 in the code: the wallet's answer always ends approving and
\* purchasing.
C32_PromptsAnswered ==
    \A st \in {"approving", "purchasing"} :
        (client.state = st) ~> (client.state # st)

\* C32 witness: the purchase the hook waits for has reverted; the flow is in
\* waiting_purchase and nothing but the visitor can move it.
C32_Witness ==
    /\ client.state = "waiting_purchase"
    /\ txs.purchase = "reverted"
    /\ pc = "idle"
    /\ ~ENABLED HookProgress

\* ------------------------------------------------------------------ C33
\* What a step of execute hands to the wallet.
ApproveWritten ==
    /\ client'.state = "approving"
    /\ txs'.approve = "prompt"
    /\ txs'.amount = flowPrice
    /\ txs'.purchase = txs.purchase

PurchaseWritten ==
    /\ client'.state = "purchasing"
    /\ txs'.purchase = "prompt"
    /\ txs'.approve = txs.approve

\* execute picks its one transaction from the balance and the allowance the
\* hook has read; unknownAllowed tells whether a purchase may be written
\* while the allowance has not been read.
ExecutePicks(unknownAllowed) ==
    /\ ~(ApproveWritten /\ PurchaseWritten)
    /\ IF client.balance # Undefined /\ client.balance < flowPrice
       THEN /\ txs' = txs
            /\ client'.state = "error"
            /\ client'.error = "Insufficient MNEE balance"
       ELSE IF client.allowance # Undefined /\ client.allowance < flowPrice
       THEN ApproveWritten
       ELSE PurchaseWritten
    /\ PurchaseWritten =>
           IF client.allowance = Undefined THEN unknownAllowed
           ELSE client.allowance >= flowPrice

\* C33: execute submits at most one transaction per invocation: nothing and
\* the error 'Insufficient MNEE balance' when the balance read is below the
\* price, only approve(contract, price) when the allowance read is below the
\* price, and purchaseProduct only when the allowance is known and covers
\* the price, never while it is unknown.
C33_ExecutePicksFromTokenState ==
    [][Execute => ExecutePicks(FALSE)]_vars

\* C33 in the code: the same, but an allowance that has not been read yet
\* counts as sufficient.
C33_UnknownAllowanceCounts ==
    [][Execute => ExecutePicks(TRUE)]_vars

\* C33 witness: the visitor's allowance read has not returned and the
\* allowance on the ledger is below the price of the loaded product; the purchase is with
\* the wallet.
C33_Witness ==
    /\ client.address # Null
    /\ client.product.id = PageProductId
    /\ client.allowance = Undefined
    /\ allowance[client.address] < flowPrice
    /\ client.state = "purchasing"
    /\ txs.purchase = "prompt"

\* ------------------------------------------------------------------ C34
RetryRunning == client.retry.pc \in {"call", "sleep"}

RetryDone == client.retry.pc \in {"returned", "thrown"}

\* What a run of retry has done so far, and how it ended.
RetryBounded ==
    LET run == client.retry
        failed == IF run.pc = "returned" THEN run.calls - 1 ELSE run.calls
        waited == IF run.pc \in {"call", "returned"} THEN failed
                  ELSE IF failed = 0 THEN 0 ELSE failed - 1
    IN  /\ run.calls <= run.maxAttempts
        /\ run.delays = [k \in 1..waited |-> run.baseDelayMs * 2 ^ (k - 1)]
        /\ run.pc = "sleep" => run.calls < run.maxAttempts
        /\ run.pc = "returned" =>
               /\ run.calls = run.attempt
               /\ run.result = ValueOf(run.calls)
        /\ run.pc = "thrown" =>
               /\ run.calls = run.maxAttempts
               /\ run.error = IF run.maxAttempts = 0 THEN UndefinedError
                              ELSE [attempt |-> run.maxAttempts,
                                    instanceofError |-> TRUE]

\* fn is called once per step at most, and not again once the run is over.
RetryCallsOnce ==
    /\ client'.retry.calls \in {0, client.retry.calls, client.retry.calls + 1}
    /\ (RetryDone /\ client'.retry # client.retry) =>
           /\ client'.retry.calls = 0
           /\ client'.retry.delays = <<>>

C34_ReturnedSecond ==
    /\ client.retry.pc = "returned"
    /\ client.retry.calls = 2
    /\ client.retry.result = ValueOf(2)
    /\ client.retry.delays = <<client.retry.baseDelayMs>>

\* ------------------------------------------------------------------ C35
\* The product store: ids 1..productCounter without gaps, each product
\* under its own id with a seller, a price, a content id and a name; id 0
\* and the ids above productCounter read as 'does not exist'.
StoreWellFormed ==
    /\ productCounter \in 0..MaxProducts
    /\ \A id \in ProductIds :
          IF id <= productCounter
          THEN /\ products[id].id = id
               /\ products[id].seller # ZeroAddress
               /\ products[id].price > 0
               /\ products[id].cid # ""
               /\ products[id].name # ""
          ELSE products[id] = ZeroProduct
    /\ \A id \in 0..(MaxProducts + 1) :
          (id = 0 \/ id > productCounter) =>
              /\ Product(id).id = 0
              /\ \A caller \in Accounts :
                    getProductCID(caller, id) = Reverted("ProductDoesNotExist")

\* A step keeps the products listed: the counter does not go down, and id,
\* seller and content id of a listed product stay.  The step in which a
\* transaction reverts puts back the store the transaction began with.
StoreKept ==
    IF TransferFailed
    THEN productCounter' = saved.productCounter /\ products' = saved.products
    ELSE /\ productCounter' >= productCounter
         /\ \A id \in 1..productCounter :
               /\ products'[id].id = products[id].id
               /\ products'[id].seller = products[id].seller
               /\ products'[id].cid = products[id].cid

\* C35: in every reachable state the product store is well formed, the
\* counter never decreases, and a product's id, seller and content id never
\* change after listing.
C35_ProductStore ==
    []StoreWellFormed /\ [][StoreKept]_vars

\* C35 witness: two products are listed and the price of the first has been
\* updated.
C35_Witness ==
    /\ pc = "idle"
    /\ productCounter = 2
    /\ products[1].price \in UpdatePrices
    /\ products[2].id = 2
    /\ lastResult = Result("updateProductPrice", "ok", FALSE)

\* ------------------------------------------------------------------ C36
\* The accounts that hold a receipt for product id.
Buyers(id) == {a \in Accounts : hasPurchased[a][id]}

\* The sales of the products seller s has listed.
SalesOf(s) ==
    SumOver([id \in ProductIds |->
                 IF products[id].seller = s THEN products[id].salesCount
                 ELSE 0], ProductIds)

\* C36: in every reachable state a product's salesCount is the number of
\* accounts that hold a receipt for it, and a seller's totalSales is the sum
\* of salesCount over the products the seller listed.
C36_SalesCounted ==
    /\ \A id \in ProductIds : products[id].salesCount = Cardinality(Buyers(id))
    /\ \A s \in Accounts : sellers[s].totalSales = SalesOf(s)

\* C36 witness: two accounts have bought the same product.
C36_Witness ==
    /\ pc = "idle"
    /\ \E id \in ProductIds :
          /\ products[id].salesCount = 2
          /\ Cardinality(Buyers(id)) = 2
          /\ sellers[products[id].seller].totalSales = 2

\* ------------------------------------------------------------------ C37
\* The ids in a list of product ids.
IdsIn(list) == {list[i] : i \in 1..Len(list)}

Increasing(list) ==
    \A i \in 1..Len(list), j \in 1..Len(list) : i < j => list[i] < list[j]

\* getSellerProducts(s) lists the products of s, each once, by increasing
\* id.
SellerProductsListed ==
    \A s \in Accounts :
        /\ IdsIn(getSellerProducts(s)) =
               {id \in 1..productCounter : products[id].seller = s}
        /\ Increasing(getSellerProducts(s))

\* Only a listing of s that succeeds changes the list of s, by the new id
\* at its end; the step in which a transaction reverts puts back the list
\* the transaction began with.
SellerProductsKept ==
    \A s \in Accounts :
        sellers'[s].productIds # sellers[s].productIds =>
            IF TransferFailed
            THEN sellers'[s].productIds = saved.sellers[s].productIds
            ELSE /\ lastResult'.op = "listProduct"
                 /\ lastResult'.err = "ok"
                 /\ productCounter' = productCounter + 1
                 /\ products'[productCounter'].seller = s
                 /\ sellers'[s].productIds =
                        Append(sellers[s].productIds, productCounter')

\* C37: getSellerProducts(s) lists exactly the ids of the products whose
\* seller is s, each once, in increasing order, and nothing but a successful
\* listProduct by s changes the list.
C37_SellerProducts ==
    []SellerProductsListed /\ [][SellerProductsKept]_vars

\* C37 witness: two sellers have listed one product each, and the lists
\* say so.
C37_Witness ==
    /\ pc = "idle"
    /\ productCounter = 2
    /\ products[1].seller # products[2].seller
    /\ getSellerProducts(products[1].seller) = <<1>>
    /\ getSellerProducts(products[2].seller) = <<2>>

\* One seller has listed two products.
C37_TwoOfOneSeller ==
    \E s \in Accounts : getSellerProducts(s) = <<1, 2>>

\* ------------------------------------------------------------------ C38
\* The accounts that pass the access check of withdrawPlatformFees.
MayWithdrawFees ==
    {a \in Accounts : WithdrawPlatformCheck(a) # "OwnableUnauthorizedAccount"}

\* C38: in every reachable state the account allowed to call
\* withdrawPlatformFees is the account that receives the fees: Ownable's
\* owner and Martowner designate the same account, also after
\* transferOwnership and renounceOwnership.
C38_CallerIsRecipient ==
    /\ owner = Martowner
    /\ MayWithdrawFees = {Martowner}

\* C38 in the code: Martowner is fixed by the constructor, and the two
\* accounts are the same until an ownership call of Ownable succeeds.
C38_SameUntilOwnershipMoves ==
    [][/\ Martowner' = Martowner
       /\ owner' # owner =>
              /\ lastResult'.op \in {"transferOwnership", "renounceOwnership"}
              /\ lastResult'.err = "ok"]_vars

\* C38 witness: fees are waiting, the ownership has been transferred, and
\* the one account that may withdraw them is not the one they go to.
C38_Witness ==
    /\ pc = "idle"
    /\ platformBalance > 0
    /\ lastResult = Result("transferOwnership", "ok", FALSE)
    /\ owner \in Accounts
    /\ owner # Martowner
    /\ MayWithdrawFees = {owner}

\* After renounceOwnership no account may withdraw the fees.
C38_Renounced ==
    /\ owner = ZeroAddress
    /\ platformBalance > 0
    /\ MayWithdrawFees = {}

\* ------------------------------------------------------------------ C39
\* A content id no product was listed with.
OtherCid == "QmB"

\* What the views named answer account a about every id and every account,
\* with the products read in store.
Observation(a, store, views) ==
    [getProduct |->
         IF "getProduct" \in views
         THEN [id \in IdInputs |-> getProductIn(store, id)] ELSE <<>>,
     products |->
         IF "products" \in views
         THEN [id \in IdInputs |-> productsGetterIn(store, id)] ELSE <<>>,
     getProductCID |->
         IF "getProductCID" \in views
         THEN [id \in IdInputs |-> getProductCIDIn(store, a, id)] ELSE <<>>,
     getSellerProducts |->
         IF "getSellerProducts" \in views
         THEN [s \in Accounts |-> getSellerProducts(s)] ELSE <<>>,
     hasUserPurchased |->
         IF "hasUserPurchased" \in views
         THEN [u \in Accounts |->
                  [id \in IdInputs |-> hasUserPurchased(u, id)]]
         ELSE <<>>]

Views == {"getProduct", "products", "getProductCID", "getSellerProducts",
          "hasUserPurchased"}

\* The views answer an account that is neither seller nor buyer of a
\* product the same whatever the content id of that product.
ContentIdHidden(views) ==
    \A id \in 1..productCounter :
        \A a \in Strangers(id) :
            Observation(a, products, views) =
                Observation(a, [products EXCEPT ![id].cid = OtherCid], views)

\* C39: no read-only operation reveals a product's content id to an account
\* that is neither its seller nor a buyer holding a receipt: in two states
\* that differ only in that content id, getProduct, the public products
\* getter, getSellerProducts, hasUserPurchased and getProductCID answer such
\* an account the same.
C39_ContentIdHidden ==
    ContentIdHidden(Views)

\* C39 in the code: all the views but the getter of the public mapping
\* products hide the content id; getProductCID read in the ledger's store is
\* the view of the contract.
C39_HiddenButInProductsGetter ==
    /\ ContentIdHidden(Views \ {"products"})
    /\ \A a \in Accounts, id \in IdInputs :
          getProductCIDIn(products, a, id) = getProductCID(a, id)

\* C39 witness: bob is neither seller nor buyer of product 1; getProductCID
\* refuses him and getProduct leaves the content id out, and the products
\* getter answers with it.
C39_Witness ==
    /\ productCounter >= 1
    /\ "bob" \in Strangers(1)
    /\ getProductCID("bob", 1) = Reverted("AccessDenied")
    /\ getProduct(1).id = 1
    /\ productsGetter(1).cid = products[1].cid
    /\ productsGetter(1).cid # ""

\* ------------------------------------------------------------------ C40
\* What a step credits to the platform and to the sellers together.
Credited ==
    (platformBalance' - platformBalance)
        + SumOver([a \in Accounts |-> sellers'[a].balance], Accounts)
        - SumOver([a \in Accounts |-> sellers[a].balance], Accounts)

\* A purchase, step by step: the call credits fee and seller share and
\* requests their sum from the buyer; when the transfer returns, that
\* amount has moved and the event reports it (withEvent).  A purchase served
\* inside another call's transfer does all of it in one step.
PurchaseAmounts(withEvent) ==
    /\ (pc = "idle" /\ pc' = "purchase") =>
           /\ frame'.amount = Credited
           /\ frame'.platformFee = platformBalance' - platformBalance
    /\ (pc = "purchase" /\ pc' = "idle" /\ lastResult'.err = "ok") =>
           /\ Charged = frame.amount
           /\ lastEvent'.name = "ProductPurchased"
           /\ lastEvent'.platformFee = frame.platformFee
           /\ withEvent => lastEvent'.amount = Charged
    /\ (pc' = pc /\ calls' = calls + 1
           /\ lastResult'.op = "purchaseProduct") =>
           /\ Charged = Credited
           /\ lastEvent'.name = "ProductPurchased"
           /\ lastEvent'.platformFee = platformBalance' - platformBalance
           /\ withEvent => lastEvent'.amount = Charged

\* C40: in every successful purchaseProduct the amount requested from the
\* buyer equals the fee and the seller share credited in that call and
\* equals the price the purchased event reports, also when the token
\* re-enters during the transfer and updateProductPrice is called on the
\* product being purchased.
C40_ChargedCreditedReported ==
    [][PurchaseAmounts(TRUE)]_vars

\* C40 in the code: the amount requested is the amount credited; the event
\* reports the fee credited, and the price the product has when the transfer
\* has returned.
C40_ChargedIsCredited ==
    [][/\ PurchaseAmounts(FALSE)
       /\ (pc = "purchase" /\ pc' = "idle" /\ lastResult'.err = "ok") =>
              lastEvent'.amount = products[frame.productId].price]_vars

\* C40 witness: a purchase charged at 50 and credited as 50 has returned
\* with an event that reports the price set during its transfer.
C40_Witness ==
    /\ pc = "idle"
    /\ lastResult = Result("purchaseProduct", "ok", FALSE)
    /\ lastEvent.name = "ProductPurchased"
    /\ lastEvent.amount \in UpdatePrices
    /\ paidIn \in ListPrices
    /\ balanceOf[Mart] = paidIn
    /\ platformBalance + sellers[lastEvent.seller].balance = paidIn
    /\ products[lastEvent.productId].price = lastEvent.amount

=============================================================================
